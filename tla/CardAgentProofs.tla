-------------------------- MODULE CardAgentProofs --------------------------
(***************************************************************************)
(* The writer of the card is alone, a stop that found no write lets none   *)
(* begin, and what the agent says of the card is true, for any number of   *)
(* connections and for every plan.                                         *)
(*                                                                         *)
(* The first two follow from one chain (WriterInv): a handler between its  *)
(* lock and its unlock holds the card lock (SectionLocked), so at most one *)
(* handler is inside execute-write; that one keeps the reservation until   *)
(* its defers run, is active from its promotion on, and owns the claim     *)
(* while it looks at the card, which keeps the desktop from mounting it.   *)
(*                                                                         *)
(* The last rests on AgentInv, and on WriterInv: a status is durable       *)
(* before the card is touched, so what may be lost is announced, and an    *)
(* image that was read back stays until a later operation has announced    *)
(* the same partition (Stays).                                             *)
(***************************************************************************)
EXTENDS CardAgent, FiniteSetTheorems, TLAPS

(* The places of a handler, from the outside in. *)
Looking   == {"baseline", "stage", "promote", "status"} \cup Writing
Promoted  == {"status"} \cup Writing \cup Evidencing
Executing == {"unmounted", "claim", "pin", "finish"} \cup Looking \cup Promoted
Section   == {"run", "unlock"} \cup Executing

SectionLocked    == \A c \in Conns : pc[c] \in Section => lock = c
WriteReserved    == \A c \in Conns : pc[c] \in Executing => reserved
PromotedIsActive == \A c \in Conns : pc[c] \in Promoted => active
LookerClaims     == \A c \in Conns : pc[c] \in Looking \cup {"pin"} => claim = c
NothingMounted   == \A c \in Conns : pc[c] \in Looking => ~mounted

WriterInv ==
    /\ pc \in [Conns -> HandlerSteps]
    /\ SectionLocked /\ WriteReserved /\ PromotedIsActive /\ LookerClaims /\ NothingMounted

USE DEF HandlerSteps, Looking, Promoted, Executing, Section, Writing, Evidencing,
        SectionLocked, WriteReserved, PromotedIsActive, LookerClaims, NothingMounted,
        WriterInv, Goto, Fail, Finishes, session, medium, evidence

-----------------------------------------------------------------------------
(* The accept loop and what happens to the agent. *)

LEMMA ServerStep ==
    ASSUME WriterInv, Server
    PROVE  WriterInv'
<1>1. CASE CheckStop
  BY <1>1 DEF CheckStop
<1>2. CASE PollTimeout \/ PollFails \/ Exit
  BY <1>2 DEF PollTimeout, PollFails, Exit
<1>3. ASSUME NEW c \in Conns, Accept(c)
      PROVE  WriterInv'
  BY <1>3 DEF Accept
<1> QED
  BY <1>1, <1>2, <1>3 DEF Server

LEMMA WorldStep ==
    ASSUME WriterInv, Signal \/ Automount \/ PowerLoss
    PROVE  WriterInv'
<1>1. CASE Signal
  BY <1>1 DEF Signal
<1>2. CASE Automount
  BY <1>2, PlanAssumption DEF Automount
<1>3. CASE PowerLoss
  BY <1>3 DEF PowerLoss
<1> QED
  BY <1>1, <1>2, <1>3

-----------------------------------------------------------------------------
(* A handler outside execute-write. *)

LEMMA DispatchStep ==
    ASSUME NEW c \in Conns, WriterInv,
           Request(c) \/ StopReply(c) \/ TryLock(c)
    PROVE  WriterInv'
<1>1. CASE Request(c)
  BY <1>1 DEF Request
<1>2. CASE StopReply(c)
  BY <1>2 DEF StopReply
<1>3. CASE TryLock(c)
  <2>1. CASE lock = None
    BY <1>3, <2>1, PlanAssumption DEF TryLock
  <2>2. CASE lock # None
    BY <1>3, <2>2 DEF TryLock
  <2> QED BY <2>1, <2>2
<1> QED
  BY <1>1, <1>2, <1>3

LEMMA ReadStep ==
    ASSUME NEW c \in Conns, WriterInv,
           RunRead(c) \/ RunClone(c) \/ RunMount(c)
    PROVE  WriterInv'
<1>1. CASE RunRead(c)
  BY <1>1 DEF RunRead
<1>2. CASE RunClone(c)
  <2>1. pc' = [pc EXCEPT ![c] = "unlock"] /\ UNCHANGED <<session, lock, claim, medium>>
    BY <1>2 DEF RunClone
  <2> QED BY <1>2, <2>1 DEF RunClone
<1>3. CASE RunMount(c)
  <2>1. /\ pc[c] = "run" /\ pc' = [pc EXCEPT ![c] = "unlock"]
        /\ UNCHANGED <<session, lock, claim>>
    BY <1>3 DEF RunMount
  <2>2. \A d \in Conns : pc[d] \notin Looking
    BY <2>1
  <2> QED BY <2>1, <2>2
<1> QED
  BY <1>1, <1>2, <1>3

LEMMA LeaveStep ==
    ASSUME NEW c \in Conns, WriterInv,
           Unlock(c) \/ Respond(c) \/ Catch(c) \/ Leave(c)
    PROVE  WriterInv'
<1>1. CASE Unlock(c)
  <2>1. \A d \in Conns \ {c} : pc[d] \notin Section
    BY <1>1 DEF Unlock
  <2>2. pc'[c] \notin Section /\ \A d \in Conns \ {c} : pc'[d] = pc[d]
    BY <1>1 DEF Unlock
  <2>3. pc' \in [Conns -> HandlerSteps]
    BY <1>1 DEF Unlock
  <2>4. \A d \in Conns : pc'[d] \notin Section
    BY <2>1, <2>2
  <2> QED BY <2>3, <2>4
<1>2. CASE Respond(c)
  BY <1>2 DEF Respond
<1>3. CASE Catch(c)
  BY <1>3 DEF Catch
<1>4. CASE Leave(c)
  BY <1>4 DEF Leave
<1> QED
  BY <1>1, <1>2, <1>3, <1>4

-----------------------------------------------------------------------------
(* execute-write, up to its promotion and after it. *)

LEMMA PrepareStep ==
    ASSUME NEW c \in Conns, WriterInv,
           Reserve(c) \/ FirstCheck(c) \/ Claim(c) \/ Pin(c) \/ Baseline(c) \/ Stage(c)
    PROVE  WriterInv'
<1>1. CASE Reserve(c)
  BY <1>1 DEF Reserve
<1>2. CASE FirstCheck(c)
  BY <1>2 DEF FirstCheck
<1>3. CASE Claim(c)
  BY <1>3 DEF Claim
<1>4. CASE Pin(c)
  BY <1>4 DEF Pin
<1>5. CASE Baseline(c)
  BY <1>5 DEF Baseline
<1>6. CASE Stage(c)
  BY <1>6 DEF Stage
<1> QED
  BY <1>1, <1>2, <1>3, <1>4, <1>5, <1>6

LEMMA WriteStep ==
    ASSUME NEW c \in Conns, WriterInv,
           Promote(c) \/ CreateStatus(c) \/ Copy(c) \/ Sync(c) \/ Readback(c) \/ Recheck(c)
    PROVE  WriterInv'
<1>1. CASE Promote(c)
  BY <1>1 DEF Promote
<1>2. CASE CreateStatus(c)
  BY <1>2 DEF CreateStatus
<1>3. CASE Copy(c)
  BY <1>3 DEF Copy
<1>4. CASE Sync(c)
  BY <1>4 DEF Sync
<1>5. CASE Readback(c)
  BY <1>5 DEF Readback
<1>6. CASE Recheck(c)
  BY <1>6 DEF Recheck
<1> QED
  BY <1>1, <1>2, <1>3, <1>4, <1>5, <1>6

LEMMA EvidenceStep ==
    ASSUME NEW c \in Conns, WriterInv,
           MarkVerified(c) \/ CompleteStatus(c) \/ WriteReceipt(c) \/ Finish(c)
    PROVE  WriterInv'
<1>1. CASE MarkVerified(c)
  BY <1>1 DEF MarkVerified
<1>2. CASE CompleteStatus(c)
  <2>1. /\ pc[c] = "complete" /\ \E s \in {"finish", "receipt"} : pc' = [pc EXCEPT ![c] = s]
        /\ UNCHANGED <<session, lock, claim, medium>>
    BY <1>2 DEF CompleteStatus
  <2> QED BY <2>1
<1>3. CASE WriteReceipt(c)
  BY <1>3 DEF WriteReceipt
<1>4. CASE Finish(c)
  <2>1. \A d \in Conns \ {c} : pc[d] \notin Section
    BY <1>4 DEF Finish
  <2>2. /\ pc' = [pc EXCEPT ![c] = "unlock"] /\ UNCHANGED <<lock, mounted>>
        /\ pc[c] = "finish"
    BY <1>4 DEF Finish
  <2> QED BY <2>1, <2>2
<1> QED
  BY <1>1, <1>2, <1>3, <1>4

LEMMA WriterInductive ==
    ASSUME WriterInv, [Next]_vars
    PROVE  WriterInv'
<1>1. CASE UNCHANGED vars
  BY <1>1 DEF vars
<1>2. ASSUME NEW c \in Conns, Handler(c)
      PROVE  WriterInv'
  BY <1>2, DispatchStep, ReadStep, LeaveStep, PrepareStep, WriteStep, EvidenceStep
     DEF Handler, Write
<1> QED
  BY <1>1, <1>2, ServerStep, WorldStep DEF Next, Ended

LEMMA WriterInit ==
    ASSUME Init
    PROVE  WriterInv
BY DEF Init

LEMMA WriterInvHolds == Spec => []WriterInv
BY WriterInit, WriterInductive, PTL DEF Spec

-----------------------------------------------------------------------------
(* However many clients there are and whatever the desktop does between the    *)
(* checks, the handler that writes, reads back and rechecks holds the card and *)
(* the claim alone, reserved and active, with nothing of the card mounted      *)
(* (UnixServer.executeWrite, CardDevice.executeWrite, WholeDiskClaim).         *)
THEOREM TheWriterIsAlone == Spec => []WriterIsAlone
<1>1. WriterInv => WriterIsAlone
  BY DEF WriterIsAlone
<1> QED
  BY <1>1, WriterInvHolds, PTL

(* Only a promotion begins a write and only an active handler copies: every *)
(* other step of a handler that does not end a write leaves both alone.     *)
LEMMA OthersWriteNothing ==
    ASSUME NEW c \in Conns, Handler(c),
           ~Promote(c), ~Copy(c), ~Finish(c)
    PROVE  active' = active /\ card' = card
<1>1. CASE Request(c)
  BY <1>1 DEF Request
<1>2. CASE StopReply(c)
  BY <1>2 DEF StopReply
<1>3. CASE TryLock(c)
  BY <1>3 DEF TryLock
<1>4. CASE RunRead(c)
  BY <1>4 DEF RunRead
<1>5. CASE RunClone(c)
  BY <1>5 DEF RunClone
<1>6. CASE RunMount(c)
  BY <1>6 DEF RunMount
<1>7. CASE Reserve(c)
  BY <1>7 DEF Reserve
<1>8. CASE FirstCheck(c)
  BY <1>8 DEF FirstCheck
<1>9. CASE Claim(c)
  BY <1>9 DEF Claim
<1>10. CASE Pin(c)
  BY <1>10 DEF Pin
<1>11. CASE Baseline(c)
  BY <1>11 DEF Baseline
<1>12. CASE Stage(c)
  BY <1>12 DEF Stage
<1>13. CASE CreateStatus(c)
  BY <1>13 DEF CreateStatus
<1>14. CASE Sync(c)
  BY <1>14 DEF Sync
<1>15. CASE Readback(c)
  BY <1>15 DEF Readback
<1>16. CASE Recheck(c)
  BY <1>16 DEF Recheck
<1>17. CASE MarkVerified(c)
  BY <1>17 DEF MarkVerified
<1>18. CASE CompleteStatus(c)
  BY <1>18 DEF CompleteStatus
<1>19. CASE WriteReceipt(c)
  BY <1>19 DEF WriteReceipt
<1>20. CASE Unlock(c)
  BY <1>20 DEF Unlock
<1>21. CASE Respond(c)
  BY <1>21 DEF Respond
<1>22. CASE Catch(c)
  BY <1>22 DEF Catch
<1>23. CASE Leave(c)
  BY <1>23 DEF Leave
<1> QED
  BY <1>1, <1>2, <1>3, <1>4, <1>5, <1>6, <1>7, <1>8, <1>9, <1>10, <1>11, <1>12,
     <1>13, <1>14, <1>15, <1>16, <1>17, <1>18, <1>19, <1>20, <1>21, <1>22, <1>23
     DEF Handler, Write

LEMMA StopIsFinal ==
    ASSUME WriterInv, [Next]_vars, stopping, ~active
    PROVE  ~active' /\ (card' = card \/ server' = "dead")
<1>1. CASE UNCHANGED vars
  BY <1>1 DEF vars
<1>2. CASE Server
  <2>1. CASE CheckStop \/ PollTimeout \/ PollFails \/ Exit
    <3>1. active' = active /\ card' = card
      BY <2>1 DEF CheckStop, PollTimeout, PollFails, Exit
    <3> QED BY <3>1
  <2>2. ASSUME NEW c \in Conns, Accept(c)
        PROVE  active' = active /\ card' = card
    BY <2>2 DEF Accept
  <2> QED BY <1>2, <2>1, <2>2 DEF Server
<1>3. CASE Signal \/ Automount
  <2>1. active' = active /\ card' = card
    BY <1>3 DEF Signal, Automount
  <2> QED BY <2>1
<1>4. CASE PowerLoss
  BY <1>4 DEF PowerLoss
<1>5. ASSUME NEW c \in Conns, Handler(c)
      PROVE  ~active' /\ card' = card
  <2>1. ~Copy(c)
    BY DEF Copy
  <2>2. ~(Promote(c) /\ active')
    BY DEF Promote
  <2>3. CASE Promote(c)
    BY <2>3, <2>2 DEF Promote
  <2>4. CASE Finish(c)
    BY <2>4 DEF Finish
  <2>5. CASE ~Promote(c) /\ ~Finish(c)
    BY <1>5, <2>1, <2>5, OthersWriteNothing
  <2> QED BY <2>3, <2>4, <2>5
<1> QED
  BY <1>1, <1>2, <1>3, <1>4, <1>5 DEF Next, Ended

(* A stop that comes while no write is active is final: no handler, however far *)
(* past its own checks, begins a write or changes the card after it             *)
(* (SessionState.promoteWrite against requestStop).                             *)
THEOREM StopPreventsWrites == Spec => NoWriteAfterStop
<1>1. WriterInv /\ [Next]_vars =>
         [(stopping /\ ~active) => ~active' /\ (card' = card \/ server' = "dead")]_vars
  BY StopIsFinal
<1> QED
  BY <1>1, WriterInvHolds, PTL DEF Spec, NoWriteAfterStop

HIDE DEF HandlerSteps, Looking, Promoted, Executing, Section, Writing, Evidencing,
         SectionLocked, WriteReserved, PromotedIsActive, LookerClaims, NothingMounted,
         WriterInv, Goto, Fail, Finishes, session, medium, evidence

-----------------------------------------------------------------------------
(* The card and what is told of it: AgentInv, one part at a time.  First the   *)
(* types, and the handlers the group counts.                                   *)

FlagTypes ==
    /\ server \in {"check", "poll", "drain", "exited", "dead"}
    /\ stopping \in BOOLEAN /\ reserved \in BOOLEAN /\ active \in BOOLEAN /\ mounted \in BOOLEAN

OwnerTypes ==
    /\ consumed \subseteq Ops /\ verified \subseteq Conns
    /\ lock \in Conns \cup {None} /\ claim \in Conns \cup {None}
    /\ op \in [Conns -> Ops \cup {None}]

PlaceTypes ==
    pc \in [Conns -> HandlerSteps] /\ result \in [Conns -> Results]

CommandTypes ==
    cmd \in [Conns -> CardCommands \cup {"none"}]

CardTypes ==
    card \in [Partitions -> Images \cup {"torn"}] /\ soft \subseteq Partitions

FileTypes ==
    /\ status \in [Ops -> Statuses] /\ kept \in [Ops -> Statuses]
    /\ receipt \in [Ops -> {"none", "clone", "written"}]

LEMMA FlagTypesStep ==
    ASSUME NEW c \in Conns, FlagTypes, Handler(c)
    PROVE  FlagTypes'
<1> USE DEF FlagTypes, Goto, Fail, Finishes
<1>1. CASE Request(c)
  BY <1>1, PlanAssumption DEF Request, session, medium, evidence
<1>2. CASE StopReply(c)
  BY <1>2 DEF StopReply, session, medium, evidence
<1>3. CASE TryLock(c) \/ RunRead(c) \/ RunMount(c)
  BY <1>3 DEF TryLock, RunRead, RunMount, session, medium, evidence
<1>4. CASE RunClone(c)
  BY <1>4 DEF RunClone, session, medium, evidence
<1>5. CASE Reserve(c)
  BY <1>5, PlanAssumption DEF Reserve, session, medium, evidence
<1>6. CASE FirstCheck(c) \/ Claim(c) \/ Pin(c)
  BY <1>6 DEF FirstCheck, Claim, Pin, session, medium, evidence
<1>7. CASE Baseline(c) \/ Stage(c)
  BY <1>7 DEF Baseline, Stage, session, medium, evidence
<1>8. CASE Promote(c)
  BY <1>8 DEF Promote, session, medium, evidence
<1>9. CASE CreateStatus(c)
  BY <1>9 DEF CreateStatus, Publish, session, medium, evidence
<1>10. CASE Copy(c)
  BY <1>10 DEF Copy, session, medium, evidence
<1>11. CASE CompleteStatus(c)
  BY <1>11 DEF CompleteStatus, Publish, session, medium, evidence
<1>12. CASE Sync(c) \/ Readback(c) \/ Recheck(c)
  BY <1>12 DEF Sync, Readback, Recheck, session, medium, evidence
<1>13. CASE MarkVerified(c)
  BY <1>13 DEF MarkVerified, session, medium, evidence
<1>14. CASE WriteReceipt(c)
  BY <1>14 DEF WriteReceipt, session, medium, evidence
<1>15. CASE Finish(c) \/ Unlock(c)
  BY <1>15 DEF Finish, Unlock, session, medium, evidence
<1>16. CASE Respond(c)
  BY <1>16 DEF Respond, session, medium, evidence
<1>17. CASE Catch(c)
  BY <1>17 DEF Catch, session, medium, evidence
<1>18. CASE Leave(c)
  BY <1>18 DEF Leave, session, medium, evidence
<1> QED
  BY <1>1, <1>2, <1>3, <1>4, <1>5, <1>6, <1>7, <1>8, <1>9, <1>10, <1>11, <1>12, <1>13, <1>14,
     <1>15, <1>16, <1>17, <1>18 DEF Handler, Write

LEMMA OwnerTypesStep ==
    ASSUME NEW c \in Conns, OwnerTypes, Handler(c)
    PROVE  OwnerTypes'
<1> USE DEF OwnerTypes, Goto, Fail, Finishes
<1>1. CASE Request(c)
  BY <1>1, PlanAssumption DEF Request, session, medium, evidence
<1>2. CASE StopReply(c)
  BY <1>2 DEF StopReply, session, medium, evidence
<1>3. CASE TryLock(c) \/ RunRead(c) \/ RunMount(c)
  BY <1>3 DEF TryLock, RunRead, RunMount, session, medium, evidence
<1>4. CASE RunClone(c)
  BY <1>4 DEF RunClone, session, medium, evidence
<1>5. CASE Reserve(c)
  BY <1>5, PlanAssumption DEF Reserve, session, medium, evidence
<1>6. CASE FirstCheck(c) \/ Claim(c) \/ Pin(c)
  BY <1>6 DEF FirstCheck, Claim, Pin, session, medium, evidence
<1>7. CASE Baseline(c) \/ Stage(c)
  BY <1>7 DEF Baseline, Stage, session, medium, evidence
<1>8. CASE Promote(c)
  BY <1>8 DEF Promote, session, medium, evidence
<1>9. CASE CreateStatus(c)
  BY <1>9 DEF CreateStatus, Publish, session, medium, evidence
<1>10. CASE Copy(c)
  BY <1>10 DEF Copy, session, medium, evidence
<1>11. CASE CompleteStatus(c)
  BY <1>11 DEF CompleteStatus, Publish, session, medium, evidence
<1>12. CASE Sync(c) \/ Readback(c) \/ Recheck(c)
  BY <1>12 DEF Sync, Readback, Recheck, session, medium, evidence
<1>13. CASE MarkVerified(c)
  BY <1>13 DEF MarkVerified, session, medium, evidence
<1>14. CASE WriteReceipt(c)
  BY <1>14 DEF WriteReceipt, session, medium, evidence
<1>15. CASE Finish(c) \/ Unlock(c)
  BY <1>15 DEF Finish, Unlock, session, medium, evidence
<1>16. CASE Respond(c)
  BY <1>16 DEF Respond, session, medium, evidence
<1>17. CASE Catch(c)
  BY <1>17 DEF Catch, session, medium, evidence
<1>18. CASE Leave(c)
  BY <1>18 DEF Leave, session, medium, evidence
<1> QED
  BY <1>1, <1>2, <1>3, <1>4, <1>5, <1>6, <1>7, <1>8, <1>9, <1>10, <1>11, <1>12, <1>13, <1>14,
     <1>15, <1>16, <1>17, <1>18 DEF Handler, Write

LEMMA PlaceTypesStep ==
    ASSUME NEW c \in Conns, PlaceTypes, Handler(c)
    PROVE  PlaceTypes'
<1> USE DEF PlaceTypes, Goto, Fail, Finishes
<1>1. CASE Request(c)
  BY <1>1, PlanAssumption DEF Request, session, medium, evidence, HandlerSteps, Results,
     Writing, Evidencing
<1>2. CASE StopReply(c)
  BY <1>2 DEF StopReply, session, medium, evidence, HandlerSteps, Results, Writing, Evidencing
<1>3. CASE TryLock(c) \/ RunRead(c) \/ RunMount(c)
  BY <1>3 DEF TryLock, RunRead, RunMount, session, medium, evidence, HandlerSteps, Results,
     Writing, Evidencing
<1>4. CASE RunClone(c)
  BY <1>4 DEF RunClone, session, medium, evidence, HandlerSteps, Results, Writing, Evidencing
<1>5. CASE Reserve(c)
  BY <1>5, PlanAssumption DEF Reserve, session, medium, evidence, HandlerSteps, Results,
     Writing, Evidencing
<1>6. CASE FirstCheck(c) \/ Claim(c) \/ Pin(c)
  BY <1>6 DEF FirstCheck, Claim, Pin, session, medium, evidence, HandlerSteps, Results, Writing,
     Evidencing
<1>7. CASE Baseline(c) \/ Stage(c)
  BY <1>7 DEF Baseline, Stage, session, medium, evidence, HandlerSteps, Results, Writing,
     Evidencing
<1>8. CASE Promote(c)
  BY <1>8 DEF Promote, session, medium, evidence, HandlerSteps, Results, Writing, Evidencing
<1>9. CASE CreateStatus(c)
  BY <1>9 DEF CreateStatus, Publish, session, medium, evidence, HandlerSteps, Results, Writing,
     Evidencing
<1>10. CASE Copy(c)
  BY <1>10 DEF Copy, session, medium, evidence, HandlerSteps, Results, Writing, Evidencing
<1>11. CASE CompleteStatus(c)
  BY <1>11 DEF CompleteStatus, Publish, session, medium, evidence, HandlerSteps, Results,
     Writing, Evidencing
<1>12. CASE Sync(c) \/ Readback(c) \/ Recheck(c)
  BY <1>12 DEF Sync, Readback, Recheck, session, medium, evidence, HandlerSteps, Results,
     Writing, Evidencing
<1>13. CASE MarkVerified(c)
  BY <1>13 DEF MarkVerified, session, medium, evidence, HandlerSteps, Results, Writing, Evidencing
<1>14. CASE WriteReceipt(c)
  BY <1>14 DEF WriteReceipt, session, medium, evidence, HandlerSteps, Results, Writing, Evidencing
<1>15. CASE Finish(c) \/ Unlock(c)
  BY <1>15 DEF Finish, Unlock, session, medium, evidence, HandlerSteps, Results, Writing,
     Evidencing
<1>16. CASE Respond(c)
  BY <1>16 DEF Respond, session, medium, evidence, HandlerSteps, Results, Writing, Evidencing
<1>17. CASE Catch(c)
  BY <1>17 DEF Catch, session, medium, evidence, HandlerSteps, Results, Writing, Evidencing
<1>18. CASE Leave(c)
  BY <1>18 DEF Leave, session, medium, evidence, HandlerSteps, Results, Writing, Evidencing
<1> QED
  BY <1>1, <1>2, <1>3, <1>4, <1>5, <1>6, <1>7, <1>8, <1>9, <1>10, <1>11, <1>12, <1>13, <1>14,
     <1>15, <1>16, <1>17, <1>18 DEF Handler, Write

LEMMA CommandTypesStep ==
    ASSUME NEW c \in Conns, CommandTypes, Handler(c)
    PROVE  CommandTypes'
<1> USE DEF CommandTypes, CardCommands
<1>1. CASE Request(c)
  BY <1>1, PlanAssumption DEF Request, session, medium, evidence
<1>2. CASE StopReply(c)
  BY <1>2 DEF StopReply, session, medium, evidence
<1>3. CASE TryLock(c) \/ RunRead(c) \/ RunMount(c)
  BY <1>3 DEF TryLock, RunRead, RunMount, session, medium, evidence
<1>4. CASE RunClone(c)
  BY <1>4 DEF RunClone, session, medium, evidence
<1>5. CASE Reserve(c)
  BY <1>5, PlanAssumption DEF Reserve, session, medium, evidence
<1>6. CASE FirstCheck(c) \/ Claim(c) \/ Pin(c)
  BY <1>6 DEF FirstCheck, Claim, Pin, session, medium, evidence
<1>7. CASE Baseline(c) \/ Stage(c)
  BY <1>7 DEF Baseline, Stage, session, medium, evidence
<1>8. CASE Promote(c)
  BY <1>8 DEF Promote, session, medium, evidence
<1>9. CASE CreateStatus(c)
  BY <1>9 DEF CreateStatus, Publish, session, medium, evidence
<1>10. CASE Copy(c)
  BY <1>10 DEF Copy, session, medium, evidence
<1>11. CASE CompleteStatus(c)
  BY <1>11 DEF CompleteStatus, Publish, session, medium, evidence
<1>12. CASE Sync(c) \/ Readback(c) \/ Recheck(c)
  BY <1>12 DEF Sync, Readback, Recheck, session, medium, evidence
<1>13. CASE MarkVerified(c)
  BY <1>13 DEF MarkVerified, session, medium, evidence
<1>14. CASE WriteReceipt(c)
  BY <1>14 DEF WriteReceipt, session, medium, evidence
<1>15. CASE Finish(c) \/ Unlock(c)
  BY <1>15 DEF Finish, Unlock, session, medium, evidence
<1>16. CASE Respond(c)
  BY <1>16 DEF Respond, session, medium, evidence
<1>17. CASE Catch(c)
  BY <1>17 DEF Catch, session, medium, evidence
<1>18. CASE Leave(c)
  BY <1>18 DEF Leave, session, medium, evidence
<1> QED
  BY <1>1, <1>2, <1>3, <1>4, <1>5, <1>6, <1>7, <1>8, <1>9, <1>10, <1>11, <1>12, <1>13, <1>14,
     <1>15, <1>16, <1>17, <1>18 DEF Handler, Write

LEMMA CardTypesStep ==
    ASSUME NEW c \in Conns, op \in [Conns -> Ops \cup {None}],
           \A d \in Conns : pc[d] \in Reserved => op[d] # None, CardTypes, Handler(c)
    PROVE  CardTypes'
<1> USE DEF CardTypes
<1>1. CASE Request(c)
  BY <1>1, PlanAssumption DEF Request, session, medium, evidence, Target, Source, Partitions,
     Images, Reserved, Writing
<1>2. CASE StopReply(c)
  BY <1>2 DEF StopReply, session, medium, evidence, Target, Source, Partitions, Images,
     Reserved, Writing
<1>3. CASE TryLock(c) \/ RunRead(c) \/ RunMount(c)
  BY <1>3 DEF TryLock, RunRead, RunMount, session, medium, evidence, Target, Source, Partitions,
     Images, Reserved, Writing
<1>4. CASE RunClone(c)
  BY <1>4 DEF RunClone, session, medium, evidence, Target, Source, Partitions, Images, Reserved,
     Writing
<1>5. CASE Reserve(c)
  BY <1>5, PlanAssumption DEF Reserve, session, medium, evidence, Target, Source, Partitions,
     Images, Reserved, Writing
<1>6. CASE FirstCheck(c) \/ Claim(c) \/ Pin(c)
  BY <1>6 DEF FirstCheck, Claim, Pin, session, medium, evidence, Target, Source, Partitions,
     Images, Reserved, Writing
<1>7. CASE Baseline(c) \/ Stage(c)
  BY <1>7 DEF Baseline, Stage, session, medium, evidence, Target, Source, Partitions, Images,
     Reserved, Writing
<1>8. CASE Promote(c)
  BY <1>8 DEF Promote, session, medium, evidence, Target, Source, Partitions, Images, Reserved,
     Writing
<1>9. CASE CreateStatus(c)
  BY <1>9 DEF CreateStatus, Publish, session, medium, evidence, Target, Source, Partitions,
     Images, Reserved, Writing
<1>10. CASE Copy(c)
  BY <1>10 DEF Copy, session, medium, evidence, Target, Source, Partitions, Images, Reserved,
     Writing
<1>11. CASE CompleteStatus(c)
  BY <1>11 DEF CompleteStatus, Publish, session, medium, evidence, Target, Source, Partitions,
     Images, Reserved, Writing
<1>12. CASE Sync(c) \/ Readback(c) \/ Recheck(c)
  BY <1>12 DEF Sync, Readback, Recheck, session, medium, evidence, Target, Source, Partitions,
     Images, Reserved, Writing
<1>13. CASE MarkVerified(c)
  BY <1>13 DEF MarkVerified, session, medium, evidence, Target, Source, Partitions, Images,
     Reserved, Writing
<1>14. CASE WriteReceipt(c)
  BY <1>14 DEF WriteReceipt, session, medium, evidence, Target, Source, Partitions, Images,
     Reserved, Writing
<1>15. CASE Finish(c) \/ Unlock(c)
  BY <1>15 DEF Finish, Unlock, session, medium, evidence, Target, Source, Partitions, Images,
     Reserved, Writing
<1>16. CASE Respond(c)
  BY <1>16 DEF Respond, session, medium, evidence, Target, Source, Partitions, Images, Reserved,
     Writing
<1>17. CASE Catch(c)
  BY <1>17 DEF Catch, session, medium, evidence, Target, Source, Partitions, Images, Reserved,
     Writing
<1>18. CASE Leave(c)
  BY <1>18 DEF Leave, session, medium, evidence, Target, Source, Partitions, Images, Reserved,
     Writing
<1> QED
  BY <1>1, <1>2, <1>3, <1>4, <1>5, <1>6, <1>7, <1>8, <1>9, <1>10, <1>11, <1>12, <1>13, <1>14,
     <1>15, <1>16, <1>17, <1>18 DEF Handler, Write

LEMMA FileTypesStep ==
    ASSUME NEW c \in Conns, FileTypes, Handler(c)
    PROVE  FileTypes'
<1> USE DEF FileTypes, Statuses
<1>1. CASE Request(c)
  BY <1>1, PlanAssumption DEF Request, session, medium, evidence
<1>2. CASE StopReply(c)
  BY <1>2 DEF StopReply, session, medium, evidence
<1>3. CASE TryLock(c) \/ RunRead(c) \/ RunMount(c)
  BY <1>3 DEF TryLock, RunRead, RunMount, session, medium, evidence
<1>4. CASE RunClone(c)
  BY <1>4 DEF RunClone, session, medium, evidence
<1>5. CASE Reserve(c)
  BY <1>5, PlanAssumption DEF Reserve, session, medium, evidence
<1>6. CASE FirstCheck(c) \/ Claim(c) \/ Pin(c)
  BY <1>6 DEF FirstCheck, Claim, Pin, session, medium, evidence
<1>7. CASE Baseline(c) \/ Stage(c)
  BY <1>7 DEF Baseline, Stage, session, medium, evidence
<1>8. CASE Promote(c)
  BY <1>8 DEF Promote, session, medium, evidence
<1>9. CASE CreateStatus(c)
  BY <1>9 DEF CreateStatus, Publish, session, medium, evidence
<1>10. CASE Copy(c)
  BY <1>10 DEF Copy, session, medium, evidence
<1>11. CASE CompleteStatus(c)
  BY <1>11 DEF CompleteStatus, Publish, session, medium, evidence
<1>12. CASE Sync(c) \/ Readback(c) \/ Recheck(c)
  BY <1>12 DEF Sync, Readback, Recheck, session, medium, evidence
<1>13. CASE MarkVerified(c)
  BY <1>13 DEF MarkVerified, session, medium, evidence
<1>14. CASE WriteReceipt(c)
  BY <1>14 DEF WriteReceipt, session, medium, evidence
<1>15. CASE Finish(c) \/ Unlock(c)
  BY <1>15 DEF Finish, Unlock, session, medium, evidence
<1>16. CASE Respond(c)
  BY <1>16 DEF Respond, session, medium, evidence
<1>17. CASE Catch(c)
  BY <1>17 DEF Catch, session, medium, evidence
<1>18. CASE Leave(c)
  BY <1>18 DEF Leave, session, medium, evidence
<1> QED
  BY <1>1, <1>2, <1>3, <1>4, <1>5, <1>6, <1>7, <1>8, <1>9, <1>10, <1>11, <1>12, <1>13, <1>14,
     <1>15, <1>16, <1>17, <1>18 DEF Handler, Write

Entered == {c \in Conns : pc[c] \notin {"free", "done"}}

LEMMA StaysEntered ==
    ASSUME NEW c \in Conns, pc \in [Conns -> HandlerSteps], Handler(c), ~Leave(c)
    PROVE  handlers' = handlers /\ Entered' = Entered
<1>1. /\ handlers' = handlers /\ pc[c] \notin {"free", "done"}
      /\ \E s \in HandlerSteps \ {"free", "done"} : pc' = [pc EXCEPT ![c] = s]
  <2> USE DEF Goto, Fail, Finishes, HandlerSteps, Writing, Evidencing
  <2>1. CASE Request(c)
    BY <2>1 DEF Request
  <2>2. CASE StopReply(c)
    BY <2>2 DEF StopReply
  <2>3. CASE TryLock(c) \/ RunRead(c) \/ RunMount(c)
    BY <2>3 DEF TryLock, RunRead, RunMount
  <2>4. CASE RunClone(c)
    BY <2>4 DEF RunClone
  <2>5. CASE Reserve(c)
    BY <2>5 DEF Reserve
  <2>6. CASE FirstCheck(c) \/ Claim(c) \/ Pin(c)
    BY <2>6 DEF FirstCheck, Claim, Pin
  <2>7. CASE Baseline(c) \/ Stage(c)
    BY <2>7 DEF Baseline, Stage
  <2>8. CASE Promote(c)
    BY <2>8 DEF Promote
  <2>9. CASE CreateStatus(c)
    BY <2>9 DEF CreateStatus
  <2>10. CASE Copy(c)
    BY <2>10 DEF Copy
  <2>11. CASE CompleteStatus(c)
    BY <2>11 DEF CompleteStatus
  <2>12. CASE Sync(c) \/ Readback(c) \/ Recheck(c)
    BY <2>12 DEF Sync, Readback, Recheck
  <2>13. CASE MarkVerified(c)
    BY <2>13 DEF MarkVerified
  <2>14. CASE WriteReceipt(c)
    BY <2>14 DEF WriteReceipt
  <2>15. CASE Finish(c) \/ Unlock(c)
    BY <2>15 DEF Finish, Unlock
  <2>16. CASE Respond(c)
    BY <2>16 DEF Respond
  <2>17. CASE Catch(c)
    BY <2>17 DEF Catch
  <2> QED BY <2>1, <2>2, <2>3, <2>4, <2>5, <2>6, <2>7, <2>8, <2>9, <2>10, <2>11, <2>12, <2>13,
      <2>14, <2>15, <2>16, <2>17 DEF Handler, Write
<1> QED
  BY <1>1 DEF Entered

LEMMA CountStep ==
    ASSUME NEW c \in Conns, pc \in [Conns -> HandlerSteps], HandlersAreCounted, Handler(c)
    PROVE  HandlersAreCounted'
<1>1. CASE Leave(c)
  <2>1. Entered' = Entered \ {c} /\ c \in Entered /\ handlers' = handlers - 1
    BY <1>1 DEF Leave, Goto, Entered
  <2>2. IsFiniteSet(Entered)
    BY PlanAssumption, FS_Subset DEF Entered
  <2>3. Cardinality(Entered \ {c}) = Cardinality(Entered) - 1
    BY <2>1, <2>2, FS_RemoveElement
  <2> QED BY <2>1, <2>3 DEF HandlersAreCounted, Entered
<1>2. CASE ~Leave(c)
  BY <1>2, StaysEntered DEF HandlersAreCounted, Entered
<1> QED
  BY <1>1, <1>2

LEMMA CountBounds ==
    ASSUME NEW S \in SUBSET Conns
    PROVE  Cardinality(S) \in 0..Cardinality(Conns)
<1>1. IsFiniteSet(S) /\ Cardinality(S) <= Cardinality(Conns)
  BY PlanAssumption, FS_Subset
<1>2. Cardinality(S) \in Nat /\ Cardinality(Conns) \in Nat
  BY <1>1, PlanAssumption, FS_CardinalityType
<1> QED
  BY <1>1, <1>2

-----------------------------------------------------------------------------
(* Whose operation it is, and what its status file says at each step.          *)

Functions ==
    /\ pc \in [Conns -> HandlerSteps] /\ op \in [Conns -> Ops \cup {None}]
    /\ result \in [Conns -> Results]
    /\ status \in [Ops -> Statuses] /\ kept \in [Ops -> Statuses] /\ verified \subseteq Conns
OneWriter == \A d, e \in Conns : pc[d] \in Reserved /\ pc[e] \in Reserved => d = e
CardType == card \in [Partitions -> Images \cup {"torn"}]

LEMMA PlanFacts ==
    /\ \A o \in Ops : Plan[o].partition \in Partitions /\ Plan[o].source \in Images
                      /\ Plan[o].before \in Images
    /\ "torn" \notin Images /\ None \notin Conns /\ None \notin Ops
BY PlanAssumption DEF Partitions, Images

LEMMA OpsStep ==
    ASSUME NEW c \in Conns, OpsAreOwned, Functions, server # "dead", Handler(c)
    PROVE  OpsAreOwned'
<1> USE DEF OpsAreOwned, Functions, Goto, Fail, Finishes
<1>1. CASE Request(c) \/ StopReply(c) \/ TryLock(c) \/ RunRead(c) \/ RunMount(c)
  BY <1>1 DEF Request, StopReply, TryLock, RunRead, RunMount, Reserved, Free, Before, Writing,
     Evidencing, session, evidence
<1>2. CASE RunClone(c)
  BY <1>2 DEF RunClone, Reserved, Free, Before, Writing, Evidencing, session, evidence
<1>3. CASE Reserve(c)
  BY <1>3, PlanAssumption DEF Reserve, Reserved, Free, Before, Writing, Evidencing, session,
     evidence
<1>4. CASE FirstCheck(c) \/ Claim(c) \/ Pin(c) \/ Baseline(c) \/ Stage(c) \/ Promote(c)
  BY <1>4 DEF FirstCheck, Claim, Pin, Baseline, Stage, Promote, Reserved, Free, Before, Writing,
     Evidencing, session, evidence
<1>5. CASE CreateStatus(c) \/ CompleteStatus(c)
  BY <1>5 DEF CreateStatus, CompleteStatus, Publish, Reserved, Free, Before, Writing,
     Evidencing, session, evidence
<1>6. CASE Copy(c) \/ Sync(c) \/ Readback(c) \/ Recheck(c) \/ MarkVerified(c) \/ WriteReceipt(c)
  BY <1>6 DEF Copy, Sync, Readback, Recheck, MarkVerified, WriteReceipt, Reserved, Free, Before,
     Writing, Evidencing, session, evidence
<1>7. CASE Finish(c) \/ Unlock(c) \/ Respond(c) \/ Catch(c) \/ Leave(c)
  BY <1>7 DEF Finish, Unlock, Respond, Catch, Leave, Reserved, Free, Before, Writing,
     Evidencing, session, evidence
<1> QED
  BY <1>1, <1>2, <1>3, <1>4, <1>5, <1>6, <1>7 DEF Handler, Write
LEMMA StatusStep ==
    ASSUME NEW c \in Conns, StatusFollows, OpsAreOwned, Functions, server # "dead", Handler(c)
    PROVE  StatusFollows'
<1> USE DEF StatusFollows, OpsAreOwned, Functions, Goto, Fail, Finishes
<1>1. CASE Request(c) \/ StopReply(c) \/ TryLock(c) \/ RunRead(c) \/ RunMount(c)
  BY <1>1 DEF Request, StopReply, TryLock, RunRead, RunMount, Reserved, Free, Before, Writing,
     Evidencing, session, evidence, medium
<1>2. CASE RunClone(c)
  BY <1>2 DEF RunClone, Reserved, Free, Before, Writing, Evidencing, session, evidence, medium
<1>3. CASE Reserve(c)
  BY <1>3, PlanAssumption DEF Reserve, Reserved, Free, Before, Writing, Evidencing, session,
     evidence, medium
<1>4. CASE FirstCheck(c) \/ Claim(c) \/ Pin(c)
  BY <1>4 DEF FirstCheck, Claim, Pin, Reserved, Free, Before, Writing, Evidencing, session,
     evidence, medium
<1>5. CASE Baseline(c) \/ Stage(c) \/ Promote(c)
  BY <1>5 DEF Baseline, Stage, Promote, Reserved, Free, Before, Writing, Evidencing, session,
     evidence, medium
<1>6. CASE CreateStatus(c)
  BY <1>6 DEF CreateStatus, Publish, Reserved, Free, Before, Writing, Evidencing, session,
     evidence, medium
<1>7. CASE CompleteStatus(c)
  BY <1>7 DEF CompleteStatus, Publish, Reserved, Free, Before, Writing, Evidencing, session,
     evidence, medium
<1>8. CASE Copy(c) \/ Sync(c) \/ Readback(c)
  BY <1>8 DEF Copy, Sync, Readback, Reserved, Free, Before, Writing, Evidencing, session,
     evidence, medium
<1>9. CASE Recheck(c) \/ MarkVerified(c) \/ WriteReceipt(c)
  BY <1>9 DEF Recheck, MarkVerified, WriteReceipt, Reserved, Free, Before, Writing, Evidencing,
     session, evidence, medium
<1>10. CASE Finish(c) \/ Unlock(c)
  BY <1>10 DEF Finish, Unlock, Reserved, Free, Before, Writing, Evidencing, session, evidence,
     medium
<1>11. CASE Respond(c) \/ Catch(c) \/ Leave(c)
  BY <1>11 DEF Respond, Catch, Leave, Reserved, Free, Before, Writing, Evidencing, session,
     evidence, medium
<1> QED
  BY <1>1, <1>2, <1>3, <1>4, <1>5, <1>6, <1>7, <1>8, <1>9, <1>10, <1>11 DEF Handler, Write

-----------------------------------------------------------------------------
(* The partition that is read back is the one that was written, and what may   *)
(* be torn is announced.                                                       *)

LEMMA ReadWrittenStep ==
    ASSUME NEW c \in Conns, OneWriter, OpsAreOwned, StatusFollows, Functions, CardType,
           ReadIsWritten, Handler(c)
    PROVE  ReadIsWritten'
<1> USE DEF ReadIsWritten, OneWriter, Functions, OpsAreOwned, Goto, Fail, Finishes, Target, Source
<1>1. CASE Request(c) \/ StopReply(c) \/ TryLock(c) \/ RunRead(c) \/ RunMount(c)
  BY <1>1 DEF Request, StopReply, TryLock, RunRead, RunMount, Reserved, Free, Before, Writing,
     Evidencing, session, evidence, medium
<1>2. CASE RunClone(c)
  BY <1>2 DEF RunClone, Reserved, Free, Before, Writing, Evidencing, session, evidence, medium
<1>3. CASE Reserve(c)
  BY <1>3, PlanAssumption DEF Reserve, Reserved, Free, Before, Writing, Evidencing, session,
     evidence, medium
<1>4. CASE FirstCheck(c) \/ Claim(c) \/ Pin(c)
  BY <1>4 DEF FirstCheck, Claim, Pin, Reserved, Free, Before, Writing, Evidencing, session,
     evidence, medium
<1>5. CASE Baseline(c) \/ Stage(c) \/ Promote(c)
  BY <1>5 DEF Baseline, Stage, Promote, Reserved, Free, Before, Writing, Evidencing, session,
     evidence, medium
<1>6. CASE CreateStatus(c)
  BY <1>6 DEF CreateStatus, Publish, Reserved, Free, Before, Writing, Evidencing, session,
     evidence, medium
<1>7. CASE CompleteStatus(c)
  BY <1>7 DEF CompleteStatus, Publish, Reserved, Free, Before, Writing, Evidencing, session,
     evidence, medium
<1>8. CASE Copy(c)
  BY <1>8 DEF Copy, Reserved, Free, Before, Writing, Evidencing, session, evidence, medium
<1>9. CASE Sync(c) \/ Readback(c)
  BY <1>9 DEF Sync, Readback, Reserved, Free, Before, Writing, Evidencing, session, evidence,
     medium
<1>10. CASE Recheck(c) \/ MarkVerified(c) \/ WriteReceipt(c)
  BY <1>10 DEF Recheck, MarkVerified, WriteReceipt, Reserved, Free, Before, Writing, Evidencing,
     session, evidence, medium
<1>11. CASE Finish(c) \/ Unlock(c)
  BY <1>11 DEF Finish, Unlock, Reserved, Free, Before, Writing, Evidencing, session, evidence,
     medium
<1>12. CASE Respond(c) \/ Catch(c) \/ Leave(c)
  BY <1>12 DEF Respond, Catch, Leave, Reserved, Free, Before, Writing, Evidencing, session,
     evidence, medium
<1> QED
  BY <1>1, <1>2, <1>3, <1>4, <1>5, <1>6, <1>7, <1>8, <1>9, <1>10, <1>11, <1>12 DEF Handler, Write

LEMMA CopyLoss ==
    ASSUME NEW c \in Conns, OpsAreOwned, StatusFollows, Functions, CardType, LossIsAnnounced,
           Copy(c)
    PROVE  LossIsAnnounced'
<1>1. op[c] \in Ops /\ status[op[c]] = "in_progress" /\ kept[op[c]] = "in_progress"
  BY DEF Copy, OpsAreOwned, StatusFollows, Functions, Reserved, Writing
<1>2. \A p \in Partitions \ {Target(c)} : (p \in soft' => p \in soft) /\ card'[p] = card[p]
  BY DEF Copy, CardType
<1>3. UNCHANGED evidence
  BY DEF Copy
<1> QED
  BY <1>1, <1>2, <1>3 DEF LossIsAnnounced, Target, evidence

LEMMA CompleteLoss ==
    ASSUME NEW c \in Conns, OpsAreOwned, Functions, CardType, ReadIsWritten, LossIsAnnounced,
           CompleteStatus(c)
    PROVE  LossIsAnnounced'
<1>1. op[c] \in Ops /\ pc[c] = "complete"
  BY DEF CompleteStatus, OpsAreOwned, Functions, Reserved, Evidencing
<1>2. Target(c) \notin soft /\ card[Target(c)] # "torn"
  BY <1>1, PlanFacts DEF ReadIsWritten, Evidencing, Source
<1>3. card' = card /\ soft' = soft
  BY DEF CompleteStatus, medium
<1>4. \A o \in Ops \ {op[c]} : status'[o] = status[o] /\ kept'[o] = kept[o]
  BY <1>1 DEF CompleteStatus, Publish, evidence, Functions
<1> QED
  BY <1>2, <1>3, <1>4 DEF LossIsAnnounced, Target

LEMMA CreateLoss ==
    ASSUME NEW c \in Conns, OpsAreOwned, Functions, LossIsAnnounced, CreateStatus(c)
    PROVE  LossIsAnnounced'
<1>1. op[c] \in Ops
  BY DEF CreateStatus, OpsAreOwned, Functions, Reserved, Before
<1>2. card' = card /\ soft' = soft
  BY DEF CreateStatus, medium
<1>3. \A o \in Ops : status[o] = "in_progress" => status'[o] = "in_progress"
  BY <1>1 DEF CreateStatus, Publish, evidence, Functions
<1>4. \A o \in Ops : kept[o] = "in_progress" => kept'[o] = "in_progress"
  BY <1>1 DEF CreateStatus, Publish, evidence, Functions
<1> QED
  BY <1>2, <1>3, <1>4 DEF LossIsAnnounced

LEMMA LossStep ==
    ASSUME NEW c \in Conns, OneWriter, OpsAreOwned, StatusFollows, Functions, CardType,
           ReadIsWritten, LossIsAnnounced, Handler(c)
    PROVE  LossIsAnnounced'
<1> USE DEF LossIsAnnounced, Functions, Goto, Fail, Finishes
<1>1. CASE Request(c) \/ StopReply(c) \/ TryLock(c) \/ RunRead(c) \/ RunMount(c)
  BY <1>1 DEF Request, StopReply, TryLock, RunRead, RunMount, medium, evidence, Target, Partitions
<1>2. CASE RunClone(c)
  BY <1>2 DEF RunClone, medium, evidence, Target, Partitions
<1>3. CASE Reserve(c)
  BY <1>3, PlanAssumption DEF Reserve, medium, evidence, Target, Partitions
<1>4. CASE FirstCheck(c) \/ Claim(c) \/ Pin(c)
  BY <1>4 DEF FirstCheck, Claim, Pin, medium, evidence, Target, Partitions
<1>5. CASE Baseline(c) \/ Stage(c) \/ Promote(c)
  BY <1>5 DEF Baseline, Stage, Promote, medium, evidence, Target, Partitions
<1>6. CASE CreateStatus(c)
  BY <1>6, CreateLoss
<1>7. CASE CompleteStatus(c)
  BY <1>7, CompleteLoss
<1>8. CASE Copy(c)
  BY <1>8, CopyLoss
<1>9. CASE Sync(c) \/ Readback(c)
  BY <1>9 DEF Sync, Readback, medium, evidence, Target, Partitions
<1>10. CASE Recheck(c) \/ MarkVerified(c) \/ WriteReceipt(c)
  BY <1>10 DEF Recheck, MarkVerified, WriteReceipt, medium, evidence, Target, Partitions
<1>11. CASE Finish(c) \/ Unlock(c)
  BY <1>11 DEF Finish, Unlock, medium, evidence, Target, Partitions
<1>12. CASE Respond(c) \/ Catch(c) \/ Leave(c)
  BY <1>12 DEF Respond, Catch, Leave, medium, evidence, Target, Partitions
<1> QED
  BY <1>1, <1>2, <1>3, <1>4, <1>5, <1>6, <1>7, <1>8, <1>9, <1>10, <1>11, <1>12 DEF Handler, Write

-----------------------------------------------------------------------------
(* What was announced complete stays on the card.                              *)

LEMMA StaysOn ==
    ASSUME NEW o \in Ops, card' = card, soft' \subseteq soft,
           \A q \in Ops : kept[q] \in {"in_progress", "complete"} =>
                          kept'[q] \in {"in_progress", "complete"},
           Stays(o)
    PROVE  Stays(o)'
BY DEF Stays

LEMMA CompleteTold ==
    ASSUME NEW c \in Conns, OpsAreOwned, StatusFollows, Functions, CardType, ReadIsWritten,
           ToldStays, CompleteStatus(c)
    PROVE  ToldStays'
<1>1. op[c] \in Ops /\ pc[c] = "complete"
  BY DEF CompleteStatus, OpsAreOwned, Functions, Reserved, Evidencing
<1>2. card' = card /\ soft' = soft /\ op' = op /\ verified' = verified
  BY DEF CompleteStatus, medium, session
<1>3. \A o \in Ops : kept[o] \in {"in_progress", "complete"} =>
                     kept'[o] \in {"in_progress", "complete"}
  BY <1>1 DEF CompleteStatus, Publish, evidence, Functions
<1>4. \A o \in Ops : Stays(o) => Stays(o)'
  BY <1>2, <1>3, StaysOn
<1>5. Stays(op[c])
  BY <1>1 DEF ReadIsWritten, Evidencing, Stays, Target, Source
<1>6. \A o \in Ops \ {op[c]} : status'[o] = status[o]
  BY <1>1 DEF CompleteStatus, Publish, evidence, Functions
<1>7. \A d \in Conns : result'[d] \in {"ok", "warning"} => result[d] \in {"ok", "warning"}
  BY DEF CompleteStatus, Fail, Functions
<1>8. \A o \in Ops : status'[o] = "complete" => Stays(o)
  BY <1>5, <1>6 DEF ToldStays
<1>9. \A d \in Conns : op'[d] # None /\ (d \in verified' \/ result'[d] \in {"ok", "warning"}) =>
         Stays(op[d])
  BY <1>2, <1>7 DEF ToldStays
<1>10. \A d \in Conns : op[d] # None => op[d] \in Ops
  BY DEF Functions
<1> QED
  BY <1>2, <1>4, <1>8, <1>9, <1>10 DEF ToldStays

LEMMA CopyTold ==
    ASSUME NEW c \in Conns, OpsAreOwned, StatusFollows, Functions, CardType,
           ToldStays, Copy(c)
    PROVE  ToldStays'
<1>1. op[c] \in Ops /\ pc[c] = "copy" /\ kept[op[c]] = "in_progress" /\
      status[op[c]] = "in_progress"
  BY DEF Copy, OpsAreOwned, Functions, Reserved, Writing, StatusFollows
<1>2. kept' = kept /\ status' = status /\ op' = op /\ verified' = verified
  BY DEF Copy, evidence, session
<1>3. \A o \in Ops \ {op[c]} : Stays(o) => Stays(o)'
  <2> SUFFICES ASSUME NEW o \in Ops \ {op[c]}, Stays(o) PROVE Stays(o)'
    OBVIOUS
  <2>1. CASE Plan[o].partition = Target(c)
    BY <1>1, <1>2, <2>1 DEF Stays, Target
  <2>2. CASE Plan[o].partition # Target(c)
    <3>1. card'[Plan[o].partition] = card[Plan[o].partition]
          /\ (Plan[o].partition \in soft' => Plan[o].partition \in soft)
      BY <2>2, PlanFacts DEF Copy, CardType
    <3> QED BY <3>1, <1>2 DEF Stays
  <2> QED BY <2>1, <2>2
<1>4. \A d \in Conns : op[d] = op[c] => d = c
  BY <1>1, PlanFacts DEF OpsAreOwned
<1>5. c \notin verified
  BY <1>1 DEF StatusFollows
<1>6. \A d \in Conns : result'[d] \in {"ok", "warning"} => result[d] \in {"ok", "warning"}
  BY DEF Copy, Fail, Functions
<1>10. \A d \in Conns : op[d] # None => op[d] \in Ops
  BY DEF Functions
<1>11. \A o \in Ops : status'[o] = "complete" => Stays(o)'
  BY <1>1, <1>2, <1>3 DEF ToldStays
<1>12. \A d \in Conns \ {c} :
         op'[d] # None /\ (d \in verified' \/ result'[d] \in {"ok", "warning"}) =>
         Stays(op[d])'
  BY <1>2, <1>3, <1>4, <1>6, <1>10 DEF ToldStays
<1>13. result[c] = "none" /\ c \notin verified'
  BY <1>1, <1>2, <1>5 DEF OpsAreOwned, Reserved, Writing
<1> QED
  BY <1>2, <1>6, <1>11, <1>12, <1>13 DEF ToldStays
LEMMA QuietTold ==
    ASSUME NEW c \in Conns, OpsAreOwned, StatusFollows, Functions, ToldStays,
           ~CreateStatus(c), ~Copy(c), ~MarkVerified(c), ~CompleteStatus(c),
           ~WriteReceipt(c), ~Catch(c), Handler(c)
    PROVE  /\ card' = card /\ soft' \subseteq soft /\ kept' = kept
           /\ \A o \in Ops : status'[o] = "complete" => status[o] = "complete"
           /\ \A d \in Conns :
                op'[d] # None /\ (d \in verified' \/ result'[d] \in {"ok", "warning"})
                => op'[d] = op[d] /\ (d \in verified \/ result[d] \in {"ok", "warning"})
<1> USE DEF OpsAreOwned, Functions, Goto, Fail, Finishes
<1>1. CASE Request(c)
  BY <1>1 DEF Request, Reserved, Free, Before, Writing, Evidencing, session, evidence, medium
<1>2. CASE StopReply(c) \/ TryLock(c) \/ RunRead(c) \/ RunMount(c)
  BY <1>2 DEF StopReply, TryLock, RunRead, RunMount, Reserved, Free, Before, Writing,
     Evidencing, session, evidence, medium
<1>3. CASE RunClone(c)
  <2>1. /\ op[c] = None /\ op' = op /\ verified' = verified
        /\ card' = card /\ soft' = soft /\ kept' = kept
    BY <1>3 DEF RunClone, Free, session, evidence, medium
  <2>2. \A o \in Ops : status'[o] = "complete" => status[o] = "complete"
    BY <1>3 DEF RunClone, evidence
  <2>3. \A d \in Conns \ {c} : result'[d] = result[d]
    BY <1>3 DEF RunClone
  <2> QED BY <2>1, <2>2, <2>3
<1>4. CASE Reserve(c)
  <2>1. /\ verified' = verified /\ card' = card /\ soft' = soft /\ kept' = kept
        /\ status' = status /\ \A d \in Conns \ {c} : op'[d] = op[d] /\ result'[d] = result[d]
    BY <1>4 DEF Reserve, session, evidence, medium
  <2>2. c \notin verified /\ result[c] = "none"
    BY <1>4 DEF Reserve, StatusFollows, Free
  <2>3. result'[c] \in {"none", "error"}
    BY <1>4, <2>2 DEF Reserve
  <2> QED BY <2>1, <2>2, <2>3
<1>5. CASE FirstCheck(c) \/ Claim(c) \/ Pin(c)
  BY <1>5 DEF FirstCheck, Claim, Pin, Reserved, Free, Before, Writing, Evidencing, session,
     evidence, medium
<1>6. CASE Baseline(c) \/ Stage(c) \/ Promote(c)
  BY <1>6 DEF Baseline, Stage, Promote, Reserved, Free, Before, Writing, Evidencing, session,
     evidence, medium
<1>7. CASE Sync(c) \/ Readback(c) \/ Recheck(c)
  BY <1>7 DEF Sync, Readback, Recheck, Reserved, Free, Before, Writing, Evidencing, session,
     evidence, medium
<1>8. CASE Finish(c) \/ Unlock(c)
  BY <1>8 DEF Finish, Unlock, Reserved, Free, Before, Writing, Evidencing, session, evidence,
     medium
<1>9. CASE Respond(c) \/ Leave(c)
  BY <1>9 DEF Respond, Leave, Reserved, Free, Before, Writing, Evidencing, session, evidence,
     medium
<1> QED
  BY <1>1, <1>2, <1>3, <1>4, <1>5, <1>6, <1>7, <1>8, <1>9 DEF Handler, Write

LEMMA KeepTold ==
    ASSUME Functions, ToldStays, card' = card, soft' \subseteq soft,
           \A q \in Ops : kept[q] \in {"in_progress", "complete"} =>
                          kept'[q] \in {"in_progress", "complete"},
           \A o \in Ops : status'[o] = "complete" => Stays(o),
           op' \in [Conns -> Ops \cup {None}],
           \A d \in Conns : op'[d] # None /\ (d \in verified' \/ result'[d] \in {"ok", "warning"})
             => Stays(op'[d])
    PROVE  ToldStays'
<1>1. \A o \in Ops : Stays(o) => Stays(o)'
  BY StaysOn
<1> QED
  BY <1>1 DEF ToldStays

LEMMA ToldStep ==
    ASSUME NEW c \in Conns, OpsAreOwned, StatusFollows, Functions, CardType, ReadIsWritten,
           ToldStays, op' \in [Conns -> Ops \cup {None}], Handler(c)
    PROVE  ToldStays'
<1>0. \A d \in Conns : op[d] # None => op[d] \in Ops
  BY DEF Functions
<1>1. CASE CreateStatus(c)
  <2>1. op[c] \in Ops
    BY <1>1 DEF CreateStatus, OpsAreOwned, Functions, Reserved, Before
  <2>2. card' = card /\ soft' = soft /\ op' = op /\ verified' = verified
    BY <1>1 DEF CreateStatus, medium, session
  <2>3. \A o \in Ops : kept[o] \in {"in_progress", "complete"} =>
                       kept'[o] \in {"in_progress", "complete"}
    BY <1>1, <2>1 DEF CreateStatus, Publish, evidence, Functions
  <2>4. \A o \in Ops : status'[o] = "complete" => status[o] = "complete"
    BY <1>1, <2>1 DEF CreateStatus, Publish, evidence, Functions
  <2>5. \A d \in Conns : result'[d] \in {"ok", "warning"} => result[d] \in {"ok", "warning"}
    BY <1>1 DEF CreateStatus, Fail, Functions
  <2>6. /\ \A o \in Ops : status'[o] = "complete" => Stays(o)
        /\ \A d \in Conns : op'[d] # None /\ (d \in verified' \/ result'[d] \in {"ok", "warning"})
             => Stays(op'[d])
    BY <2>2, <2>4, <2>5 DEF ToldStays
  <2> QED BY <2>2, <2>3, <2>6, KeepTold
<1>2. CASE MarkVerified(c)
  <2>1. /\ card' = card /\ soft' = soft /\ op' = op /\ kept' = kept /\ status' = status
        /\ result' = result /\ verified' = verified \cup {c} /\ pc[c] = "mark"
    BY <1>2 DEF MarkVerified, medium, evidence
  <2>2. Stays(op[c])
    BY <2>1 DEF ReadIsWritten, Evidencing, Stays, Target, Source
  <2>3. \A d \in Conns : op'[d] # None /\ (d \in verified' \/ result'[d] \in {"ok", "warning"})
          => Stays(op'[d])
    BY <2>1, <2>2 DEF ToldStays
  <2>4. \A o \in Ops : status'[o] = "complete" => Stays(o)
    BY <2>1 DEF ToldStays
  <2> QED BY <2>1, <2>3, <2>4, KeepTold
<1>3. CASE WriteReceipt(c)
  <2>1. /\ card' = card /\ soft' = soft /\ op' = op /\ kept' = kept /\ status' = status
        /\ verified' = verified /\ pc[c] = "receipt"
        /\ \A d \in Conns \ {c} : result'[d] = result[d]
    BY <1>3 DEF WriteReceipt, medium, session, Fail, Functions
  <2>2. op[c] \in Ops /\ status[op[c]] = "complete"
    BY <2>1 DEF StatusFollows, OpsAreOwned, Reserved, Evidencing, Functions
  <2>3. Stays(op[c])
    BY <2>2 DEF ToldStays
  <2>4. \A d \in Conns : op'[d] # None /\ (d \in verified' \/ result'[d] \in {"ok", "warning"})
          => Stays(op'[d])
    BY <2>1, <2>3 DEF ToldStays
  <2>5. \A o \in Ops : status'[o] = "complete" => Stays(o)
    BY <2>1 DEF ToldStays
  <2> QED BY <2>1, <2>4, <2>5, KeepTold
<1>4. CASE Catch(c)
  <2>1. /\ card' = card /\ soft' = soft /\ op' = op /\ kept' = kept /\ status' = status
        /\ verified' = verified
        /\ \A d \in Conns \ {c} : result'[d] = result[d]
        /\ result'[c] \in {"ok", "warning"} => c \in verified
    BY <1>4 DEF Catch, medium, session, evidence, Functions
  <2>2. \A d \in Conns : op'[d] # None /\ (d \in verified' \/ result'[d] \in {"ok", "warning"})
          => Stays(op'[d])
    BY <2>1 DEF ToldStays
  <2>3. \A o \in Ops : status'[o] = "complete" => Stays(o)
    BY <2>1 DEF ToldStays
  <2> QED BY <2>1, <2>2, <2>3, KeepTold
<1>5. CASE Copy(c) \/ CompleteStatus(c)
  BY <1>5, CopyTold, CompleteTold
<1>6. CASE ~(CreateStatus(c) \/ MarkVerified(c) \/ WriteReceipt(c) \/ Catch(c) \/ Copy(c)
            \/ CompleteStatus(c))
  <2>1. /\ card' = card /\ soft' \subseteq soft /\ kept' = kept
        /\ \A o \in Ops : status'[o] = "complete" => status[o] = "complete"
        /\ \A d \in Conns : op'[d] # None /\ (d \in verified' \/ result'[d] \in {"ok", "warning"})
             => op'[d] = op[d] /\ (d \in verified \/ result[d] \in {"ok", "warning"})
    BY <1>6, QuietTold
  <2>2. \A d \in Conns : op'[d] # None /\ (d \in verified' \/ result'[d] \in {"ok", "warning"})
          => Stays(op'[d])
    BY <2>1 DEF ToldStays
  <2>3. \A o \in Ops : status'[o] = "complete" => Stays(o)
    BY <2>1 DEF ToldStays
  <2> QED BY <2>1, <2>2, <2>3, KeepTold
<1> QED
  BY <1>1, <1>2, <1>3, <1>4, <1>5, <1>6

-----------------------------------------------------------------------------
(* What the clients are told.                                                  *)

LEMMA SuccessStep ==
    ASSUME NEW c \in Conns, OpsAreOwned, StatusFollows, Functions,
           receipt \in [Ops -> {"none", "clone", "written"}], SuccessFollows, Handler(c)
    PROVE  SuccessFollows'
<1> USE DEF SuccessFollows, OpsAreOwned, Functions, Goto, Fail, Finishes
<1>1. CASE Request(c)
  BY <1>1 DEF Request, Reserved, Free, Before, Writing, Evidencing, session, evidence, medium
<1>2. CASE StopReply(c)
  BY <1>2 DEF StopReply, Reserved, Free, Before, Writing, Evidencing, session, evidence, medium
<1>3. CASE TryLock(c) \/ RunRead(c) \/ RunMount(c)
  BY <1>3 DEF TryLock, RunRead, RunMount, Reserved, Free, Before, Writing, Evidencing, session,
     evidence, medium
<1>4. CASE RunClone(c)
  BY <1>4 DEF RunClone, Reserved, Free, Before, Writing, Evidencing, session, evidence, medium
<1>5. CASE Reserve(c)
  BY <1>5, PlanAssumption DEF Reserve, Reserved, Free, Before, Writing, Evidencing, session,
     evidence, medium
<1>6. CASE FirstCheck(c) \/ Claim(c) \/ Pin(c)
  BY <1>6 DEF FirstCheck, Claim, Pin, Reserved, Free, Before, Writing, Evidencing, session,
     evidence, medium
<1>7. CASE Baseline(c) \/ Stage(c)
  BY <1>7 DEF Baseline, Stage, Reserved, Free, Before, Writing, Evidencing, session, evidence,
     medium
<1>8. CASE Promote(c)
  BY <1>8 DEF Promote, Reserved, Free, Before, Writing, Evidencing, session, evidence, medium
<1>9. CASE CreateStatus(c)
  BY <1>9 DEF CreateStatus, Publish, Reserved, Free, Before, Writing, Evidencing, session,
     evidence, medium
<1>10. CASE Copy(c)
  BY <1>10 DEF Copy, Reserved, Free, Before, Writing, Evidencing, session, evidence, medium
<1>11. CASE CompleteStatus(c)
  BY <1>11 DEF CompleteStatus, Publish, Reserved, Free, Before, Writing, Evidencing, session,
     evidence, medium
<1>12. CASE Sync(c) \/ Readback(c) \/ Recheck(c)
  BY <1>12 DEF Sync, Readback, Recheck, Reserved, Free, Before, Writing, Evidencing, session,
     evidence, medium
<1>13. CASE MarkVerified(c)
  BY <1>13 DEF MarkVerified, Reserved, Free, Before, Writing, Evidencing, session, evidence,
     medium
<1>14. CASE WriteReceipt(c)
  <2>1. pc[c] = "receipt" /\ op[c] \in Ops /\ status[op[c]] = "complete"
    BY <1>14 DEF WriteReceipt, StatusFollows, Reserved, Evidencing
  <2>2. op' = op /\ status' = status /\ \A d \in Conns \ {c} : result'[d] = result[d]
    BY <1>14 DEF WriteReceipt
  <2>3. \A o \in Ops : receipt[o] = "written" => receipt'[o] = "written"
    BY <1>14, <2>1 DEF WriteReceipt
  <2>4. result'[c] = "ok" => receipt'[op[c]] = "written"
    BY <1>14, <2>1 DEF WriteReceipt
  <2> QED BY <2>1, <2>2, <2>3, <2>4
<1>15. CASE Finish(c) \/ Unlock(c)
  BY <1>15 DEF Finish, Unlock, Reserved, Free, Before, Writing, Evidencing, session, evidence,
     medium
<1>16. CASE Respond(c)
  BY <1>16 DEF Respond, Reserved, Free, Before, Writing, Evidencing, session, evidence, medium
<1>17. CASE Catch(c)
  BY <1>17 DEF Catch, Reserved, Free, Before, Writing, Evidencing, session, evidence, medium
<1>18. CASE Leave(c)
  BY <1>18 DEF Leave, Reserved, Free, Before, Writing, Evidencing, session, evidence, medium
<1> QED
  BY <1>1, <1>2, <1>3, <1>4, <1>5, <1>6, <1>7, <1>8, <1>9, <1>10, <1>11, <1>12, <1>13, <1>14,
     <1>15, <1>16, <1>17, <1>18 DEF Handler, Write

LEMMA FailureStep ==
    ASSUME NEW c \in Conns, OpsAreOwned, StatusFollows, Functions, FailureFollows, Handler(c)
    PROVE  FailureFollows'
<1> USE DEF FailureFollows, OpsAreOwned, StatusFollows, Functions, Goto, Fail, Finishes
<1>1. CASE Request(c)
  BY <1>1 DEF Request, Reserved, Free, Before, Writing, Evidencing, session, evidence, medium
<1>2. CASE StopReply(c)
  BY <1>2 DEF StopReply, Reserved, Free, Before, Writing, Evidencing, session, evidence, medium
<1>3. CASE TryLock(c) \/ RunRead(c) \/ RunMount(c)
  BY <1>3 DEF TryLock, RunRead, RunMount, Reserved, Free, Before, Writing, Evidencing, session,
     evidence, medium
<1>4. CASE RunClone(c)
  BY <1>4 DEF RunClone, Reserved, Free, Before, Writing, Evidencing, session, evidence, medium
<1>5. CASE Reserve(c)
  BY <1>5, PlanAssumption DEF Reserve, Reserved, Free, Before, Writing, Evidencing, session,
     evidence, medium
<1>6. CASE FirstCheck(c) \/ Claim(c) \/ Pin(c)
  BY <1>6 DEF FirstCheck, Claim, Pin, Reserved, Free, Before, Writing, Evidencing, session,
     evidence, medium
<1>7. CASE Baseline(c) \/ Stage(c)
  BY <1>7 DEF Baseline, Stage, Reserved, Free, Before, Writing, Evidencing, session, evidence,
     medium
<1>8. CASE Promote(c)
  BY <1>8 DEF Promote, Reserved, Free, Before, Writing, Evidencing, session, evidence, medium
<1>9. CASE CreateStatus(c)
  BY <1>9 DEF CreateStatus, Publish, Reserved, Free, Before, Writing, Evidencing, session,
     evidence, medium
<1>10. CASE Copy(c)
  BY <1>10 DEF Copy, Reserved, Free, Before, Writing, Evidencing, session, evidence, medium
<1>11. CASE CompleteStatus(c)
  BY <1>11 DEF CompleteStatus, Publish, Reserved, Free, Before, Writing, Evidencing, session,
     evidence, medium
<1>12. CASE Sync(c) \/ Readback(c) \/ Recheck(c)
  BY <1>12 DEF Sync, Readback, Recheck, Reserved, Free, Before, Writing, Evidencing, session,
     evidence, medium
<1>13. CASE MarkVerified(c)
  BY <1>13 DEF MarkVerified, Reserved, Free, Before, Writing, Evidencing, session, evidence,
     medium
<1>14. CASE WriteReceipt(c)
  BY <1>14 DEF WriteReceipt, Reserved, Free, Before, Writing, Evidencing, session, evidence,
     medium
<1>15. CASE Finish(c) \/ Unlock(c)
  BY <1>15 DEF Finish, Unlock, Reserved, Free, Before, Writing, Evidencing, session, evidence,
     medium
<1>16. CASE Respond(c)
  BY <1>16 DEF Respond, Reserved, Free, Before, Writing, Evidencing, session, evidence, medium
<1>17. CASE Catch(c)
  BY <1>17 DEF Catch, Reserved, Free, Before, Writing, Evidencing, session, evidence, medium
<1>18. CASE Leave(c)
  BY <1>18 DEF Leave, Reserved, Free, Before, Writing, Evidencing, session, evidence, medium
<1> QED
  BY <1>1, <1>2, <1>3, <1>4, <1>5, <1>6, <1>7, <1>8, <1>9, <1>10, <1>11, <1>12, <1>13, <1>14,
     <1>15, <1>16, <1>17, <1>18 DEF Handler, Write

LEMMA StoppingStep ==
    ASSUME NEW c \in Conns, OpsAreOwned, Functions, StoppingFollows, Handler(c)
    PROVE  StoppingFollows'
<1> USE DEF StoppingFollows, Functions, Goto, Fail, Finishes
<1>1. CASE Request(c)
  BY <1>1 DEF Request, session
<1>2. CASE StopReply(c)
  BY <1>2 DEF StopReply, session
<1>3. CASE TryLock(c) \/ RunRead(c) \/ RunMount(c)
  BY <1>3 DEF TryLock, RunRead, RunMount, session
<1>4. CASE RunClone(c)
  BY <1>4 DEF RunClone, session
<1>5. CASE Reserve(c)
  BY <1>5, PlanAssumption DEF Reserve, session
<1>6. CASE FirstCheck(c) \/ Claim(c) \/ Pin(c)
  BY <1>6 DEF FirstCheck, Claim, Pin, session
<1>7. CASE Baseline(c) \/ Stage(c)
  BY <1>7 DEF Baseline, Stage, session
<1>8. CASE Promote(c)
  BY <1>8 DEF Promote, session
<1>9. CASE CreateStatus(c)
  BY <1>9 DEF CreateStatus, Publish, session
<1>10. CASE Copy(c)
  BY <1>10 DEF Copy, session
<1>11. CASE CompleteStatus(c)
  BY <1>11 DEF CompleteStatus, Publish, session
<1>12. CASE Sync(c) \/ Readback(c) \/ Recheck(c)
  BY <1>12 DEF Sync, Readback, Recheck, session
<1>13. CASE MarkVerified(c)
  BY <1>13 DEF MarkVerified, session
<1>14. CASE WriteReceipt(c)
  BY <1>14 DEF WriteReceipt, session
<1>15. CASE Finish(c) \/ Unlock(c)
  BY <1>15 DEF Finish, Unlock, session
<1>16. CASE Respond(c)
  BY <1>16 DEF Respond, session
<1>17. CASE Catch(c)
  BY <1>17 DEF Catch, session
<1>18. CASE Leave(c)
  BY <1>18 DEF Leave, session
<1> QED
  BY <1>1, <1>2, <1>3, <1>4, <1>5, <1>6, <1>7, <1>8, <1>9, <1>10, <1>11, <1>12, <1>13, <1>14,
     <1>15, <1>16, <1>17, <1>18 DEF Handler, Write

LEMMA ShutdownStep ==
    ASSUME NEW c \in Conns, OpsAreOwned, Functions, StoppingFollows, ShutdownFollows, Handler(c)
    PROVE  ShutdownFollows'
<1> USE DEF ShutdownFollows, StoppingFollows, Functions, Goto, Fail, Finishes
<1>1. CASE Request(c)
  BY <1>1 DEF Request, session
<1>2. CASE StopReply(c)
  BY <1>2 DEF StopReply, session
<1>3. CASE TryLock(c) \/ RunRead(c) \/ RunMount(c)
  BY <1>3 DEF TryLock, RunRead, RunMount, session
<1>4. CASE RunClone(c)
  BY <1>4 DEF RunClone, session
<1>5. CASE Reserve(c)
  BY <1>5, PlanAssumption DEF Reserve, session
<1>6. CASE FirstCheck(c) \/ Claim(c) \/ Pin(c)
  BY <1>6 DEF FirstCheck, Claim, Pin, session
<1>7. CASE Baseline(c) \/ Stage(c)
  BY <1>7 DEF Baseline, Stage, session
<1>8. CASE Promote(c)
  BY <1>8 DEF Promote, session
<1>9. CASE CreateStatus(c)
  BY <1>9 DEF CreateStatus, Publish, session
<1>10. CASE Copy(c)
  BY <1>10 DEF Copy, session
<1>11. CASE CompleteStatus(c)
  BY <1>11 DEF CompleteStatus, Publish, session
<1>12. CASE Sync(c) \/ Readback(c) \/ Recheck(c)
  BY <1>12 DEF Sync, Readback, Recheck, session
<1>13. CASE MarkVerified(c)
  BY <1>13 DEF MarkVerified, session
<1>14. CASE WriteReceipt(c)
  BY <1>14 DEF WriteReceipt, session
<1>15. CASE Finish(c) \/ Unlock(c)
  BY <1>15 DEF Finish, Unlock, session
<1>16. CASE Respond(c)
  BY <1>16 DEF Respond, session
<1>17. CASE Catch(c)
  BY <1>17 DEF Catch, session
<1>18. CASE Leave(c)
  BY <1>18 DEF Leave, session
<1> QED
  BY <1>1, <1>2, <1>3, <1>4, <1>5, <1>6, <1>7, <1>8, <1>9, <1>10, <1>11, <1>12, <1>13, <1>14,
     <1>15, <1>16, <1>17, <1>18 DEF Handler, Write

-----------------------------------------------------------------------------
(* The accept loop, the desktop, a signal and the loss of power; then all of it. *)

LEMMA AgentParts ==
    ASSUME AgentInv
    PROVE  /\ Functions /\ CardType /\ FlagTypes /\ OwnerTypes /\ PlaceTypes /\ CommandTypes
           /\ CardTypes /\ FileTypes
           /\ \A d \in Conns : pc[d] \in Reserved => op[d] # None
BY DEF AgentInv, TypeOK, Functions, CardType, FlagTypes, OwnerTypes, PlaceTypes, CommandTypes,
       CardTypes, FileTypes, OpsAreOwned

LEMMA OneWriterAtATime ==
    ASSUME WriterInv
    PROVE  OneWriter
BY DEF WriterInv, OneWriter, SectionLocked, Section, Executing, Looking, Promoted, Reserved,
       Before, Writing, Evidencing

LEMMA AgentHandlerStep ==
    ASSUME NEW c \in Conns, AgentInv, WriterInv, server # "dead", Handler(c)
    PROVE  AgentInv'
<1>1. /\ FlagTypes' /\ OwnerTypes' /\ PlaceTypes' /\ CommandTypes' /\ CardTypes' /\ FileTypes'
  BY AgentParts, FlagTypesStep, OwnerTypesStep, PlaceTypesStep, CommandTypesStep,
     CardTypesStep, FileTypesStep DEF OwnerTypes
<1>2. HandlersAreCounted'
  BY AgentParts, CountStep DEF AgentInv, Functions
<1>3. handlers' \in 0..Cardinality(Conns)
  BY <1>2, CountBounds DEF HandlersAreCounted
<1>4. TypeOK'
  BY <1>1, <1>3 DEF TypeOK, FlagTypes, OwnerTypes, PlaceTypes, CommandTypes, CardTypes, FileTypes
<1>5. op' \in [Conns -> Ops \cup {None}]
  BY <1>1 DEF OwnerTypes
<1>6. OpsAreOwned' /\ StatusFollows'
  BY AgentParts, OpsStep, StatusStep DEF AgentInv
<1>7. ReadIsWritten' /\ LossIsAnnounced'
  BY AgentParts, OneWriterAtATime, ReadWrittenStep, LossStep DEF AgentInv
<1>8. ToldStays'
  BY <1>5, AgentParts, ToldStep DEF AgentInv
<1>9. receipt \in [Ops -> {"none", "clone", "written"}]
  BY AgentParts DEF FileTypes
<1>10. SuccessFollows' /\ FailureFollows' /\ StoppingFollows' /\ ShutdownFollows'
  BY <1>9, AgentParts, SuccessStep, FailureStep, StoppingStep, ShutdownStep DEF AgentInv
<1> QED
  BY <1>2, <1>4, <1>6, <1>7, <1>8, <1>10 DEF AgentInv

LEMMA AgentServerStep ==
    ASSUME AgentInv, Server
    PROVE  AgentInv'
<1>1. CASE CheckStop \/ PollTimeout \/ PollFails \/ Exit
  <2>1. UNCHANGED <<handlers, session, lock, claim, pc, cmd, op, result, medium, evidence>>
    BY <1>1 DEF CheckStop, PollTimeout, PollFails, Exit
  <2>2. server # "dead" /\ server' \in {"check", "poll", "drain", "exited", "dead"}
    BY <1>1 DEF CheckStop, PollTimeout, PollFails, Exit
  <2> QED
    BY <2>1, <2>2 DEF AgentInv, TypeOK, OpsAreOwned, StatusFollows, ReadIsWritten,
       LossIsAnnounced, ToldStays, Stays, SuccessFollows, FailureFollows, StoppingFollows,
       ShutdownFollows, HandlersAreCounted, Target, Source, session, medium, evidence
<1>2. ASSUME NEW c \in Conns, Accept(c)
      PROVE  AgentInv'
  <2>1. /\ server # "dead" /\ server' = "check" /\ pc[c] \in {"free", "done"}
        /\ handlers' = handlers + 1 /\ pc' = [pc EXCEPT ![c] = "request"]
        /\ op' = [op EXCEPT ![c] = None] /\ result' = [result EXCEPT ![c] = "none"]
        /\ UNCHANGED <<session, lock, claim, cmd, medium, evidence>>
    BY <1>2 DEF Accept
  <2>2. Functions
    BY AgentParts
  <2>3. HandlersAreCounted'
    <3>1. Entered' = Entered \cup {c} /\ c \notin Entered
      BY <2>1, <2>2 DEF Entered, Functions
    <3>2. IsFiniteSet(Entered)
      BY PlanAssumption, FS_Subset DEF Entered
    <3>3. Cardinality(Entered \cup {c}) = Cardinality(Entered) + 1
      BY <3>1, <3>2, FS_AddElement
    <3> QED BY <2>1, <3>1, <3>3 DEF HandlersAreCounted, Entered, AgentInv
  <2>4. handlers' \in 0..Cardinality(Conns)
    BY <2>3, CountBounds DEF HandlersAreCounted
  <2>5. TypeOK'
    <3>1. pc' \in [Conns -> HandlerSteps] /\ op' \in [Conns -> Ops \cup {None}]
          /\ result' \in [Conns -> Results]
      BY <2>1, <2>2 DEF Functions, HandlerSteps, Results
    <3> QED BY <2>1, <2>4, <3>1 DEF AgentInv, TypeOK, session, medium, evidence
  <2>6. c \notin verified
    BY <2>1 DEF AgentInv, StatusFollows
  <2>7. OpsAreOwned'
    BY <2>1, <2>2 DEF AgentInv, OpsAreOwned, Functions, Reserved, Before, Writing, Evidencing,
       Free, session, evidence
  <2>8. StatusFollows'
    BY <2>1, <2>2, <2>6 DEF AgentInv, StatusFollows, Functions, Before, Writing, session, evidence
  <2>9. ReadIsWritten' /\ LossIsAnnounced'
    BY <2>1, <2>2 DEF AgentInv, ReadIsWritten, LossIsAnnounced, Functions, Target, Source,
       Evidencing, medium, evidence
  <2>10. ToldStays'
    BY <2>1, <2>2 DEF AgentInv, ToldStays, Stays, Functions, session, medium, evidence
  <2>11. SuccessFollows' /\ FailureFollows'
    BY <2>1, <2>2 DEF AgentInv, SuccessFollows, FailureFollows, Functions, evidence
  <2>12. StoppingFollows' /\ ShutdownFollows'
    BY <2>1, <2>2 DEF AgentInv, StoppingFollows, ShutdownFollows, Functions, session
  <2> QED
    BY <2>3, <2>5, <2>7, <2>8, <2>9, <2>10, <2>11, <2>12 DEF AgentInv
<1> QED
  BY <1>1, <1>2 DEF Server

LEMMA AgentWorldStep ==
    ASSUME AgentInv, Signal \/ Automount
    PROVE  AgentInv'
<1>1. CASE Signal
  <2>1. /\ stopping' = TRUE
        /\ UNCHANGED <<server, handlers, reserved, active, consumed, verified, lock, claim, pc,
                       cmd, op, result, medium, evidence>>
    BY <1>1 DEF Signal
  <2> QED
    BY <2>1 DEF AgentInv, TypeOK, OpsAreOwned, StatusFollows, ReadIsWritten,
       LossIsAnnounced, ToldStays, Stays, SuccessFollows, FailureFollows, StoppingFollows,
       ShutdownFollows, HandlersAreCounted, Target, Source, medium, evidence
<1>2. CASE Automount
  <2>1. /\ mounted' \in BOOLEAN
        /\ UNCHANGED <<server, handlers, session, lock, claim, pc, cmd, op, result, card, soft,
                       evidence>>
    BY <1>2 DEF Automount
  <2> QED
    BY <2>1 DEF AgentInv, TypeOK, OpsAreOwned, StatusFollows, ReadIsWritten,
       LossIsAnnounced, ToldStays, Stays, SuccessFollows, FailureFollows, StoppingFollows,
       ShutdownFollows, HandlersAreCounted, Target, Source, session, evidence
<1> QED
  BY <1>1, <1>2

(* A power loss takes what was not synced: what was announced stays announced, *)
(* and what was complete and synced stays.                                     *)
LEMMA AgentPowerStep ==
    ASSUME AgentInv, PowerLoss
    PROVE  AgentInv'
<1>1. Functions /\ CardType /\ FileTypes
  BY AgentParts
<1>2. PICK lost \in SUBSET soft :
        card' = [p \in Partitions |-> IF p \in lost THEN "torn" ELSE card[p]]
  BY DEF PowerLoss
<1>3. PICK back \in SUBSET Ops :
        status' = [o \in Ops |-> IF o \in back THEN kept[o] ELSE status[o]]
  BY DEF PowerLoss
<1>4. /\ server' = "dead" /\ handlers' = 0 /\ stopping' = FALSE /\ reserved' = FALSE
      /\ active' = FALSE /\ consumed' = {} /\ verified' = {} /\ lock' = None /\ claim' = None
      /\ pc' = [c \in Conns |-> "free"] /\ cmd' = [c \in Conns |-> "none"]
      /\ op' = [c \in Conns |-> None] /\ result' = [c \in Conns |-> "none"]
      /\ mounted' = FALSE /\ soft' = {} /\ kept' = kept /\ receipt' = receipt
  BY DEF PowerLoss
<1>5. HandlersAreCounted'
  <2>1. {c \in Conns : pc'[c] \notin {"free", "done"}} = {}
    BY <1>4
  <2> QED BY <2>1, <1>4, FS_EmptySet DEF HandlersAreCounted
<1>6. TypeOK'
  <2>1. handlers' \in 0..Cardinality(Conns)
    BY <1>5, CountBounds DEF HandlersAreCounted
  <2>2. card' \in [Partitions -> Images \cup {"torn"}]
    BY <1>1, <1>2 DEF CardType
  <2>3. status' \in [Ops -> Statuses]
    BY <1>1, <1>3 DEF Functions
  <2>4. /\ pc' \in [Conns -> HandlerSteps] /\ cmd' \in [Conns -> CardCommands \cup {"none"}]
        /\ op' \in [Conns -> Ops \cup {None}] /\ result' \in [Conns -> Results]
    BY <1>4 DEF HandlerSteps, Results
  <2> QED BY <1>1, <1>4, <2>1, <2>2, <2>3, <2>4 DEF TypeOK, Functions, FileTypes
<1>7. OpsAreOwned'
  BY <1>4 DEF OpsAreOwned, Reserved, Before, Writing, Evidencing
<1>8. \A o \in Ops : status'[o] \in {kept[o], status[o]}
  BY <1>3
<1>9. /\ \A o \in Ops : kept[o] \in {"none", status[o]} \/
                         (kept[o] = "in_progress" /\ status[o] = "complete")
      /\ \A o \in Ops : kept[o] # "clone"
  BY DEF AgentInv, StatusFollows
<1>10. StatusFollows'
  BY <1>4, <1>8, <1>9 DEF StatusFollows, Before, Writing
<1>11. ReadIsWritten'
  BY <1>4 DEF ReadIsWritten, Evidencing
<1>12. LossIsAnnounced'
  <2>1. \A p \in Partitions : card'[p] = "torn" => p \in soft \/ card[p] = "torn"
    BY <1>2
  <2>2. \A o \in Ops : status[o] = "in_progress" /\ kept[o] = "in_progress"
                        => status'[o] = "in_progress"
    BY <1>8
  <2> QED BY <1>4, <2>1, <2>2 DEF LossIsAnnounced, AgentInv
<1>13. ToldStays'
  <2>1. \A o \in Ops : status'[o] = "complete" => status[o] = "complete"
    BY <1>8, <1>9
  <2>2. \A p \in Partitions : p \notin soft => card'[p] = card[p]
    BY <1>2
  <2>3. \A o \in Ops : Stays(o) => Stays(o)'
    BY <1>4, <2>2, PlanFacts DEF Stays
  <2> QED BY <1>4, <2>1, <2>3 DEF ToldStays, AgentInv
<1>14. SuccessFollows' /\ FailureFollows' /\ StoppingFollows' /\ ShutdownFollows'
  BY <1>4 DEF SuccessFollows, FailureFollows, StoppingFollows, ShutdownFollows
<1> QED
  BY <1>5, <1>6, <1>7, <1>10, <1>11, <1>12, <1>13, <1>14 DEF AgentInv

LEMMA AgentInit ==
    ASSUME Init
    PROVE  AgentInv
<1>1. HandlersAreCounted
  <2>1. {c \in Conns : pc[c] \notin {"free", "done"}} = {}
    BY DEF Init
  <2> QED BY <2>1, FS_EmptySet DEF HandlersAreCounted, Init
<1>2. TypeOK
  <2>1. handlers \in 0..Cardinality(Conns)
    BY <1>1, CountBounds DEF HandlersAreCounted
  <2> QED BY <2>1 DEF Init, TypeOK, HandlerSteps, Results, Statuses
<1>3. OpsAreOwned /\ StatusFollows /\ ReadIsWritten
  BY DEF Init, OpsAreOwned, StatusFollows, ReadIsWritten, Reserved, Before, Writing, Evidencing
<1>4. LossIsAnnounced
  <2>1. \A p \in Partitions : card[p] # "torn"
    BY PlanFacts DEF Init
  <2> QED BY <2>1 DEF LossIsAnnounced, Init
<1>5. ToldStays
  BY DEF Init, ToldStays
<1>6. SuccessFollows /\ FailureFollows /\ StoppingFollows /\ ShutdownFollows
  BY DEF Init, SuccessFollows, FailureFollows, StoppingFollows, ShutdownFollows
<1> QED
  BY <1>1, <1>2, <1>3, <1>4, <1>5, <1>6 DEF AgentInv

LEMMA AgentInductive ==
    ASSUME AgentInv, WriterInv, [Next]_vars
    PROVE  AgentInv'
<1>1. CASE UNCHANGED vars
  BY <1>1 DEF vars, AgentInv, TypeOK, OpsAreOwned, StatusFollows, ReadIsWritten,
     LossIsAnnounced, ToldStays, Stays, SuccessFollows, FailureFollows, StoppingFollows,
     ShutdownFollows, HandlersAreCounted, Target, Source, session, medium, evidence
<1>2. ASSUME NEW c \in Conns, Running, Handler(c)
      PROVE  AgentInv'
  <2>1. server # "dead"
    BY <1>2 DEF Running
  <2> QED BY <1>2, <2>1, AgentHandlerStep
<1> QED
  BY <1>1, <1>2, AgentServerStep, AgentWorldStep, AgentPowerStep DEF Next, Ended

LEMMA AgentInvHolds == Spec => []AgentInv
<1>1. Init => AgentInv
  BY AgentInit
<1> QED
  BY <1>1, AgentInductive, WriterInvHolds, PTL DEF Spec

LEMMA StaysHolds ==
    ASSUME AgentInv, NEW o \in Ops, Stays(o)
    PROVE  Holds(o)
<1>1. \A q \in Ops : kept[q] \in {"in_progress", "complete"} =>
                      status[q] \in {"in_progress", "complete"}
  BY DEF AgentInv, StatusFollows
<1> QED
  BY <1>1 DEF Stays, Holds, Overtaken

(* For every number of clients and every plan: a partition in pieces is        *)
(* announced by a status file that a power cut leaves, a COMPLETE stands for    *)
(* the image on the card, no client is told of a shutdown that a write          *)
(* survives, and the writer is alone (UnixServer.executeWrite, SessionState).   *)
THEOREM CardIsKept == Spec => []CardHolds
<1>1. AgentInv /\ WriterInv => CardHolds
  <2> SUFFICES ASSUME AgentInv, WriterInv
               PROVE  CardHolds
    OBVIOUS
  <2>1. TornIsAnnounced
    BY DEF AgentInv, LossIsAnnounced, TornIsAnnounced
  <2>2. CompleteIsTrue
    BY StaysHolds DEF AgentInv, ToldStays, CompleteIsTrue
  <2>3. StopAnswerIsTrue
    BY DEF AgentInv, ShutdownFollows, StopAnswerIsTrue
  <2>4. WriterIsAlone
    BY DEF WriterInv, WriterIsAlone, SectionLocked, WriteReserved, PromotedIsActive,
       LookerClaims, NothingMounted, Section, Executing, Looking, Promoted
  <2> QED
    BY <2>1, <2>2, <2>3, <2>4 DEF CardHolds, AgentInv
<1> QED
  BY <1>1, AgentInvHolds, WriterInvHolds, PTL

LEMMA TruthIsTold ==
    ASSUME AgentInv
    PROVE  AnswerIsTrue
<1> SUFFICES ASSUME NEW c \in Conns, pc[c] \in {"leave", "done"}, op[c] # None
             PROVE  /\ result[c] = "error" => status[op[c]] # "complete"
                    /\ result[c] = "ok" => status[op[c]] = "complete"
                                            /\ receipt[op[c]] = "written"
                    /\ result[c] \in {"ok", "warning"} => Holds(op[c])
  BY DEF AnswerIsTrue
<1>1. op[c] \in Ops
  BY DEF AgentInv, TypeOK
<1> QED
  BY <1>1, StaysHolds DEF AgentInv, SuccessFollows, FailureFollows, ToldStays

(* What a client of a write is told agrees with the card and the evidence, from *)
(* the moment it is told until its slot is used again, whatever other handlers  *)
(* and later operations do meanwhile (UnixServer.swift 112-137, 417-470).       *)
THEOREM AnswersAreTrue == Spec => []AnswerIsTrue
BY AgentInvHolds, TruthIsTold, PTL
=============================================================================
