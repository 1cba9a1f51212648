--------------------------- MODULE HandheldProofs ---------------------------
(***************************************************************************)
(* What the programs of the handheld keep, for any number of peers, faults *)
(* and restarts.  The programs share nothing, so a theorem about one of    *)
(* them rests on the inductive invariant of its own module, and on         *)
(* OwnSteps: while part names it, every step is one of its steps.          *)
(***************************************************************************)
EXTENDS MCHandheld, Integers, FiniteSetTheorems, SequenceTheorems, WellFoundedInduction,
        TLAPS

LEMMA OwnSteps ==
    ASSUME [Next]_mcVars
    PROVE  /\ part' = part
           /\ part = "agent" => [Agent!Next]_(Agent!vars)
           /\ part = "store" => [Store!StoreNext]_(Store!storeVars)
           /\ part = "share" => [Share!ShareNext]_(Share!shareVars)
           /\ part = "policy" => [Policy!Next]_(Policy!vars)
           /\ part = "display" => [Display!DiagNext]_(Display!diagVars)
           /\ part = "session" => [Session!SessionNext]_(Session!sessionVars)
           /\ part = "cpu" => [Cpu!CpuNext]_(Cpu!cpuVars)
           /\ part = "remote" => [Remote!ControlNext]_(Remote!controlVars)
           /\ part = "upload" => [Upload!UploadNext]_(Upload!romVars)
           /\ part = "fetch" => [Fetch!FetchNext]_(Fetch!fetchVars)
           /\ part = "endpoint" => [Endpoint!Next]_(Endpoint!vars)
<1>1. CASE UNCHANGED mcVars
  BY <1>1 DEF mcVars, Agent!vars, Agent!session, Agent!medium, Agent!evidence,
     Store!storeVars, Store!disk, Store!proc,
     Share!shareVars, Share!world, Share!tree, Share!state, Share!net,
     Share!threads, Share!conn, Policy!vars, Policy!chord, Policy!modifier, Display!diagVars,
     Display!Services, Display!Terminal, Display!Frame, Display!Generator, Display!World,
     Display!Outcome, Session!sessionVars, Cpu!cpuVars, Remote!controlVars, Remote!shell,
     Remote!host, Remote!files, Upload!romVars, Fetch!fetchVars, Endpoint!vars
<1>2. CASE Next
  BY <1>2 DEF Next, ShareStep, StoreStep, SessionStep, CpuStep, RemoteStep, UploadStep,
     FetchStep, DisplayStep, PolicyStep, EndpointStep, AgentStep
<1> QED
  BY <1>1, <1>2

-----------------------------------------------------------------------------
(* The endpoint of the agent.  No step of an agent ends what another one serves: *)
(* a step that touches socket or token is taken under the flock, hence while     *)
(* nobody else serves.                                                           *)
LEMMA EndpointStepHolds ==
    ASSUME Endpoint!EndpointInv, [Endpoint!Next]_(Endpoint!vars)
    PROVE  Endpoint!EndpointInv'
<1> DEFINE flock == x1
<1> USE NamesAssumption
    DEF Endpoint!EndpointInv, Endpoint!EndpointTypes, Endpoint!HoldersLock,
        Endpoint!BinderHasToken, Endpoint!EndpointIsServed,
        Endpoint!Steps, Endpoint!Holding, Endpoint!Goto, Endpoint!Exits
<1>1. CASE UNCHANGED Endpoint!vars
  BY <1>1 DEF Endpoint!vars
<1>2. ASSUME NEW a \in Agents, Endpoint!Launch(a)
      PROVE  Endpoint!EndpointInv'
  BY <1>2 DEF Endpoint!Launch
<1>3. ASSUME NEW a \in Agents, Endpoint!AcquireInstanceLock(a)
      PROVE  Endpoint!EndpointInv'
  <2>1. CASE flock = Nobody
    BY <1>3, <2>1 DEF Endpoint!AcquireInstanceLock
  <2>2. CASE flock # Nobody
    BY <1>3, <2>2 DEF Endpoint!AcquireInstanceLock
  <2> QED BY <2>1, <2>2
<1>4. ASSUME NEW a \in Agents, Endpoint!RemoveStaleSocket(a)
      PROVE  Endpoint!EndpointInv'
  BY <1>4 DEF Endpoint!RemoveStaleSocket, Endpoint!Listening
<1>5. ASSUME NEW a \in Agents, Endpoint!RemoveStaleToken(a)
      PROVE  Endpoint!EndpointInv'
  BY <1>5 DEF Endpoint!RemoveStaleToken
<1>6. ASSUME NEW a \in Agents, Endpoint!CreateToken(a)
      PROVE  Endpoint!EndpointInv'
  BY <1>6 DEF Endpoint!CreateToken
<1>7. ASSUME NEW a \in Agents, Endpoint!Listen(a)
      PROVE  Endpoint!EndpointInv'
  BY <1>7 DEF Endpoint!Listen
<1>8. ASSUME NEW a \in Agents, Endpoint!Stop(a)
      PROVE  Endpoint!EndpointInv'
  BY <1>8 DEF Endpoint!Stop
<1>9. ASSUME NEW a \in Agents, Endpoint!UnlinkSocket(a) \/ Endpoint!UnlinkToken(a)
      PROVE  Endpoint!EndpointInv'
  BY <1>9 DEF Endpoint!UnlinkSocket, Endpoint!UnlinkToken
<1>10. ASSUME NEW a \in Agents, Endpoint!Unlock(a) \/ Endpoint!Killed(a)
       PROVE  Endpoint!EndpointInv'
  BY <1>10 DEF Endpoint!Unlock, Endpoint!Killed
<1> QED
  BY <1>1, <1>2, <1>3, <1>4, <1>5, <1>6, <1>7, <1>8, <1>9, <1>10 DEF Endpoint!Next

EndpointPart == part = "endpoint" => Endpoint!EndpointInv

(* However many agents of one user are started, stopped and killed, in whatever *)
(* order, the one that serves has its own socket and its own token under the    *)
(* names that clients use (UnixServer.prepareEndpoint, cleanEndpoint).          *)
THEOREM EndpointBelongsToServer == Spec => []EndpointIsServed
<1>1. Init => EndpointPart
  BY DEF Init, EndpointPart, Endpoint!Init, Endpoint!EndpointInv, Endpoint!EndpointTypes,
     Endpoint!HoldersLock, Endpoint!BinderHasToken, Endpoint!EndpointIsServed,
     Endpoint!Steps, Endpoint!Holding
<1>2. EndpointPart /\ [Next]_mcVars => EndpointPart'
  BY OwnSteps, EndpointStepHolds DEF EndpointPart
<1>3. EndpointPart => EndpointIsServed
  BY DEF EndpointPart, EndpointIsServed, Endpoint!EndpointInv
<1> QED
  BY <1>1, <1>2, <1>3, PTL DEF Spec

-----------------------------------------------------------------------------
(* The upload of a ROM. *)

USE DEF Upload!Checked, Upload!Linked, Upload!ScriptAt, Upload!HostAt,
        Upload!Publishes, Upload!Files, Upload!UploadTypes, Upload!ScriptIsLate,
        Upload!CandidateChecked, Upload!LinkedIsWhole, Upload!RollbackIsOwn,
        Upload!MarkIsTrue, Upload!CandidateIsBetween, Upload!LeftoverIsNamed,
        Upload!UploadInv, Upload!Absent, Upload!None, Upload!Torn, Upload!At,
        Upload!Goes, Upload!Tell, Upload!Device, Upload!HostSide, Upload!Fault

(* The host: it touches the handheld only by its copy and its cleanup. *)

LEMMA HostBegins ==
    ASSUME NEW h \in Peers, Upload!UploadInv,
           \/ Upload!ValidateRom(h) \/ Upload!Precheck(h) \/ Upload!Refused(h)
           \/ Upload!Copy(h) \/ Upload!CopyFails(h)
           \/ Upload!Rehash(h) \/ Upload!EditRom(h)
    PROVE  Upload!UploadInv'
<1>1. CASE Upload!ValidateRom(h)
  BY <1>1 DEF Upload!ValidateRom
<1>2. CASE Upload!Precheck(h)
  BY <1>2 DEF Upload!Precheck
<1>3. CASE Upload!Refused(h)
  BY <1>3 DEF Upload!Refused
<1>4. CASE Upload!Copy(h)
  BY <1>4 DEF Upload!Copy
<1>5. CASE Upload!CopyFails(h)
  BY <1>5 DEF Upload!CopyFails
<1>6. CASE Upload!Rehash(h)
  BY <1>6 DEF Upload!Rehash
<1>7. CASE Upload!EditRom(h)
  BY <1>7 DEF Upload!EditRom
<1> QED
  BY <1>1, <1>2, <1>3, <1>4, <1>5, <1>6, <1>7

LEMMA HostEnds ==
    ASSUME NEW h \in Peers, Upload!UploadInv,
           \/ Upload!Passed(h) \/ Upload!PublishFailed(h) \/ Upload!LoseConnection(h)
           \/ Upload!CleanupCandidate(h) \/ Upload!CleanupFails(h)
    PROVE  Upload!UploadInv'
<1>1. CASE Upload!Passed(h)
  BY <1>1 DEF Upload!Passed
<1>2. CASE Upload!PublishFailed(h)
  BY <1>2 DEF Upload!PublishFailed
<1>3. CASE Upload!LoseConnection(h)
  BY <1>3 DEF Upload!LoseConnection
<1>4. CASE Upload!CleanupCandidate(h)
  BY <1>4 DEF Upload!CleanupCandidate
<1>5. CASE Upload!CleanupFails(h)
  BY <1>5 DEF Upload!CleanupFails
<1> QED
  BY <1>1, <1>2, <1>3, <1>4, <1>5

-----------------------------------------------------------------------------
(* The publish script. *)

LEMMA ScriptRuns ==
    ASSUME NEW h \in Peers, Upload!UploadInv,
           \/ Upload!ScriptCheck(h) \/ Upload!ScriptFlush(h) \/ Upload!ScriptLink(h)
           \/ Upload!ScriptDrop(h)
           \/ Upload!ScriptVerify(h) \/ Upload!ScriptSettle(h) \/ Upload!ScriptMark(h)
    PROVE  Upload!UploadInv'
<1>1. CASE Upload!ScriptCheck(h)
  BY <1>1 DEF Upload!ScriptCheck, Upload!CheckCandidate
<1>2. CASE Upload!ScriptFlush(h)
  BY <1>2 DEF Upload!ScriptFlush
<1>3. CASE Upload!ScriptLink(h)
  BY <1>3 DEF Upload!ScriptLink
<1>4. CASE Upload!ScriptDrop(h)
  BY <1>4 DEF Upload!ScriptDrop
<1>5. CASE Upload!ScriptVerify(h)
  BY <1>5 DEF Upload!ScriptVerify
<1>6. CASE Upload!ScriptSettle(h)
  BY <1>6 DEF Upload!ScriptSettle
<1>7. CASE Upload!ScriptMark(h)
  BY <1>7 DEF Upload!ScriptMark
<1> QED
  BY <1>1, <1>2, <1>3, <1>4, <1>5, <1>6, <1>7

(* The EXIT trap removes the name only when it is this script's, and then no other *)
(* script has marked it or will take it back.                                      *)
LEMMA ScriptStops ==
    ASSUME NEW h \in Peers, Upload!UploadInv, Upload!ScriptExits(h)
    PROVE  Upload!UploadInv'
<1> DEFINE pc == x1  rom == x2  digest == x3  script == x4  rollback == x5  cand == x6
           synced == x7  final == x8  kept == x9  told == x10
<1>1. /\ script[h] \notin {"idle", "marked"}
      /\ script' = [script EXCEPT ![h] = "exited"]
      /\ rollback' = [rollback EXCEPT ![h] = FALSE]
      /\ UNCHANGED <<pc, rom, digest, told, cand, synced, x12>>
  BY DEF Upload!ScriptExits, Upload!Exit
<1>2. CASE rollback[h]
  <2>1. final' = Upload!Absent
    BY <1>2 DEF Upload!ScriptExits, Upload!Exit
  <2>2. \A d \in Peers \ {h} :
            rollback[d] = FALSE /\ script[d] \notin Upload!Linked \cup {"marked"}
    BY <1>2
  <2> QED BY <1>1, <2>1, <2>2
<1>3. CASE ~rollback[h]
  <2>1. UNCHANGED <<final, kept>>
    BY <1>3 DEF Upload!ScriptExits, Upload!Exit
  <2> QED BY <1>1, <2>1
<1> QED
  BY <1>2, <1>3

-----------------------------------------------------------------------------
(* A loss of power may take an entry that was not settled; it tears nothing that *)
(* is linked, and what was marked had been settled.                              *)
LEMMA PowerLossStep ==
    ASSUME Upload!UploadInv, Upload!PowerLoss
    PROVE  Upload!UploadInv'
<1> DEFINE pc == x1  rom == x2  digest == x3  script == x4  rollback == x5  cand == x6
           synced == x7  final == x8  kept == x9  told == x10
<1>1. \/ final' = final
      \/ final' = Upload!Absent /\ ~kept
  BY DEF Upload!PowerLoss
<1>2. /\ kept' = (final' # Upload!Absent)
      /\ UNCHANGED <<pc, rom, digest, synced, told>> /\ x12' = x12 + 1
      /\ script' = [d \in Peers |-> IF script[d] \in {"idle", "marked"}
                                       THEN script[d] ELSE "exited"]
      /\ rollback' = [d \in Peers |-> FALSE]
      /\ cand' = [d \in Peers |-> IF cand[d] # Upload!None /\ ~synced[d]
                                     THEN Upload!Torn ELSE cand[d]]
  BY DEF Upload!PowerLoss
<1>3. Upload!UploadTypes'
  BY <1>1, <1>2
<1>4. Upload!ScriptIsLate' /\ Upload!CandidateChecked' /\ Upload!RollbackIsOwn'
  BY <1>2
<1>5. Upload!LinkedIsWhole'
  BY <1>1, <1>2
<1>6. Upload!MarkIsTrue'
  BY <1>1, <1>2
<1>7. Upload!CandidateIsBetween' /\ Upload!LeftoverIsNamed'
  BY <1>2
<1> QED
  BY <1>3, <1>4, <1>5, <1>6, <1>7

LEMMA UploadInductive ==
    ASSUME Upload!UploadInv, [Upload!UploadNext]_(Upload!romVars)
    PROVE  Upload!UploadInv'
<1>1. CASE UNCHANGED Upload!romVars
  BY <1>1 DEF Upload!romVars
<1>2. ASSUME NEW h \in Peers, Upload!UploadStep(h)
      PROVE  Upload!UploadInv'
  BY <1>2, HostBegins, HostEnds, ScriptRuns, ScriptStops DEF Upload!UploadStep
<1> QED
  BY <1>1, <1>2, PowerLossStep DEF Upload!UploadNext

HIDE DEF Upload!Checked, Upload!Linked, Upload!ScriptAt, Upload!HostAt,
         Upload!Publishes, Upload!Files, Upload!UploadTypes, Upload!ScriptIsLate,
         Upload!CandidateChecked, Upload!LinkedIsWhole, Upload!RollbackIsOwn,
         Upload!MarkIsTrue, Upload!CandidateIsBetween, Upload!LeftoverIsNamed,
         Upload!UploadInv, Upload!Absent, Upload!None, Upload!Torn, Upload!At,
         Upload!Goes, Upload!Tell, Upload!Device, Upload!HostSide, Upload!Fault

UploadPart == part = "upload" => Upload!UploadInv

-----------------------------------------------------------------------------
(* The fetch of a picture: FetchInv holds whatever ValidatePngStructure says. *)
USE DEF Fetch!FetchTypes, Fetch!ExportIsOwned, Fetch!LinkedIsChecked, Fetch!FetchInv,
        Fetch!FetchSteps, Fetch!Busy, Fetch!Chunks, Fetch!None, Fetch!Move, Fetch!Fault,
        Fetch!Fail

LEMMA PictureIsAFile ==
    ASSUME NEW p \in Fetch!Pictures
    PROVE  p # Fetch!NoFile
<1>1. PICK n \in Lengths : p \in [1..n -> Fetch!Types]
  BY DEF Fetch!Pictures
<1>2. 1 \in DOMAIN p /\ 1 \notin DOMAIN Fetch!NoFile
  BY <1>1, LengthsAssumption DEF Fetch!NoFile
<1> QED
  BY <1>2

LEMMA FetchGets ==
    ASSUME NEW f \in Peers, Fetch!FetchInv,
           Fetch!Capture(f) \/ Fetch!CaptureFails(f) \/ Fetch!Download(f)
    PROVE  Fetch!FetchInv'
<1>1. CASE Fetch!Capture(f)
  BY <1>1, PictureIsAFile DEF Fetch!Capture
<1>2. CASE Fetch!CaptureFails(f)
  BY <1>2 DEF Fetch!CaptureFails
<1>3. CASE Fetch!Download(f)
  BY <1>3 DEF Fetch!Download
<1> QED
  BY <1>1, <1>2, <1>3

LEMMA FetchPublishes ==
    ASSUME NEW f \in Peers, Fetch!FetchInv,
           Fetch!CheckTemporary(f) \/ Fetch!LinkFinal(f) \/ Fetch!Recheck(f)
    PROVE  Fetch!FetchInv'
<1>1. CASE Fetch!CheckTemporary(f)
  BY <1>1 DEF Fetch!CheckTemporary, Fetch!ValidatePng
<1>2. CASE Fetch!LinkFinal(f)
  BY <1>2 DEF Fetch!LinkFinal
<1>3. CASE Fetch!Recheck(f)
  BY <1>3 DEF Fetch!Recheck, Fetch!ValidatePng
<1> QED
  BY <1>1, <1>2, <1>3

LEMMA FetchEnds ==
    ASSUME NEW f \in Peers, Fetch!FetchInv, Fetch!FetchFails(f) \/ Fetch!RemoteRemove(f)
    PROVE  Fetch!FetchInv'
<1>1. CASE Fetch!FetchFails(f)
  BY <1>1 DEF Fetch!FetchFails
<1>2. CASE Fetch!RemoteRemove(f)
  BY <1>2 DEF Fetch!RemoteRemove
<1> QED
  BY <1>1, <1>2

LEMMA FetchBegins == Fetch!FetchInit => Fetch!FetchInv
BY DEF Fetch!FetchInit

LEMMA FetchInductive ==
    ASSUME Fetch!FetchInv, [Fetch!FetchNext]_(Fetch!fetchVars)
    PROVE  Fetch!FetchInv'
<1>1. CASE UNCHANGED Fetch!fetchVars
  BY <1>1 DEF Fetch!fetchVars
<1> QED
  BY <1>1, FetchGets, FetchPublishes, FetchEnds DEF Fetch!FetchNext

HIDE DEF Fetch!FetchTypes, Fetch!ExportIsOwned, Fetch!LinkedIsChecked, Fetch!FetchInv,
         Fetch!FetchSteps, Fetch!Busy, Fetch!Chunks, Fetch!None, Fetch!Move, Fetch!Fault,
        Fetch!Fail

-----------------------------------------------------------------------------
(* The pass over the chunks of a picture. *)

(* Induction up to a number, with the set of the numbers that a fact holds of in *)
(* place of the fact: a set that has 0 and the successors of what it has has no  *)
(* least exception.                                                              *)
LEMMA UpTo ==
    ASSUME NEW n \in Nat, NEW Good, 0 \in Good,
           \A m \in 1 .. n : m - 1 \in Good => m \in Good
    PROVE  \A m \in 0 .. n : m \in Good
<1> DEFINE below == {r \in Nat \X Nat : r[1] < r[2]}
           bad == {m \in 0 .. n : m \notin Good}
<1>1. IsWellFoundedOn(below, Nat)
  <2>1. OpToRel(<, Nat) = below
    BY Zenon DEF OpToRel
  <2> QED
    BY <2>1, NatLessThanWellFounded, Zenon
<1> SUFFICES ASSUME bad # {} PROVE FALSE
  OBVIOUS
<1>2. bad \subseteq Nat
  OBVIOUS
<1>3. PICK m \in bad : \A k \in bad : <<k, m>> \notin below
  <2> HIDE DEF bad
  <2> QED
    BY <1>1, <1>2, WFMin, Zenon
<1>4. \A k \in bad : ~(k < m)
  <2> HIDE DEF bad
  <2> QED
    BY <1>2, <1>3
<1>5. m \in 1 .. n /\ m - 1 \notin bad /\ m - 1 \in 0 .. n
  BY <1>4
<1> QED
  BY <1>3, <1>5

LEMMA ScanSteps ==
    ASSUME NEW n \in Nat, NEW p \in [1 .. n -> Fetch!Types], Len(p) = n
    PROVE  \E s : /\ s[0] = Fetch!Begun
                  /\ \A i \in 1 .. n : s[i] = Fetch!ScanChunk(s[i - 1], p[i], i = n)
                  /\ Fetch!Scan(p) = s[n]
<1> DEFINE After(s, i) == IF i = 0 THEN Fetch!Begun
                              ELSE Fetch!ScanChunk(s[i - 1], p[i], i = Len(p))
           Upto(m, s) == s = [i \in 0 .. m |-> After(s, i)]
           Begins(m) == \E s : Upto(m, s)
<1>1. Begins(0)
  <2> DEFINE s == [i \in 0 .. 0 |-> Fetch!Begun]
  <2>1. \A i \in 0 .. 0 : After(s, i) = Fetch!Begun
    OBVIOUS
  <2> HIDE DEF After
  <2>2. Upto(0, s)
    BY <2>1
  <2> HIDE DEF s
  <2> QED BY <2>2
<1>2. ASSUME NEW m \in 1 .. n, Begins(m - 1)
      PROVE  Begins(m)
  <2>1. PICK s : Upto(m - 1, s)
    BY <1>2
  <2> DEFINE step(i) == IF i = m THEN After(s, m) ELSE s[i]
             t == [i \in 0 .. m |-> step(i)]
  <2>2. After(t, m) = After(s, m)
    OBVIOUS
  <2>3. ASSUME NEW i \in 0 .. m - 1
        PROVE  t[i] = After(t, i)
    <3>1. t[i] = s[i] /\ s[i] = After(s, i)
      BY <2>1
    <3>2. i > 0 => t[i - 1] = s[i - 1]
      OBVIOUS
    <3> QED BY <3>1, <3>2
  <2>4. ASSUME NEW i \in 0 .. m
        PROVE  t[i] = After(t, i)
    BY <2>2, <2>3
  <2>5. Upto(m, t)
    <3> SUFFICES ASSUME NEW u, u = t PROVE Upto(m, u)
      BY Zenon
    <3>1. \A i \in 0 .. m : step(i) = After(u, i)
      BY <2>4
    <3>2. u = [i \in 0 .. m |-> step(i)]
      OBVIOUS
    <3> HIDE DEF After, step, t
    <3> QED BY <3>1, <3>2
  <2> HIDE DEF t, Upto
  <2> QED BY <2>5
<1>3. Begins(n)
  <2> HIDE DEF Begins
  <2> DEFINE Good == {m \in 0 .. n : Begins(m)}
  <2>1. 0 \in Good /\ \A m \in 1 .. n : m - 1 \in Good => m \in Good
    BY <1>1, <1>2
  <2>2. \A m \in 0 .. n : m \in Good
    <3> HIDE DEF Good
    <3> QED BY <2>1, UpTo
  <2> QED BY <2>2
<1> DEFINE scan == CHOOSE s : Upto(n, s)
<1>4. Upto(n, scan)
  <2> HIDE DEF Upto
  <2> QED BY <1>3 DEF Begins
<1>5. Fetch!Scan(p) = scan[n]
  BY Zenon DEF Fetch!Scan
<1> HIDE DEF scan
<1>6. scan[0] = Fetch!Begun /\
      \A i \in 1 .. n : scan[i] = Fetch!ScanChunk(scan[i - 1], p[i], i = n)
  BY <1>4
<1> QED BY <1>5, <1>6

ScanStates == [bad : BOOLEAN, index : Nat, saw : BOOLEAN, closed : BOOLEAN, ended : BOOLEAN]

LEMMA OneChunk ==
    ASSUME NEW r \in ScanStates, NEW c, NEW last \in BOOLEAN
    PROVE  /\ Fetch!ScanChunk(r, c, last) \in ScanStates
           /\ Fetch!ScanChunk(r, c, last).index = r.index + 1
           /\ Fetch!ScanChunk(r, c, last).saw = (r.saw \/ c = "IDAT")
           /\ Fetch!ScanChunk(r, c, last).closed = (r.closed \/ (c # "IDAT" /\ r.saw))
           /\ Fetch!ScanChunk(r, c, last).ended = (r.ended \/ c = "IEND")
           /\ ~Fetch!ScanChunk(r, c, last).bad =>
                /\ ~r.bad /\ c # "damaged" /\ ~(c = "IDAT" /\ r.closed) /\ (c = "IEND" => last)
                /\ ((r.index = 0) <=> (c = "IHDR"))
<1>1. ~Fetch!ScanChunk(r, c, last).bad =>
        /\ ~r.bad /\ c # "damaged" /\ ~(c = "IDAT" /\ r.closed) /\ (c = "IEND" => last)
  BY Zenon DEF Fetch!ScanChunk, ScanStates
<1>2. ~Fetch!ScanChunk(r, c, last).bad => ((r.index = 0) <=> (c = "IHDR"))
  BY Zenon DEF Fetch!ScanChunk, ScanStates
<1>3. /\ Fetch!ScanChunk(r, c, last) \in ScanStates
      /\ Fetch!ScanChunk(r, c, last).index = r.index + 1
      /\ Fetch!ScanChunk(r, c, last).saw = (r.saw \/ c = "IDAT")
      /\ Fetch!ScanChunk(r, c, last).closed = (r.closed \/ (c # "IDAT" /\ r.saw))
      /\ Fetch!ScanChunk(r, c, last).ended = (r.ended \/ c = "IEND")
  BY DEF Fetch!ScanChunk, ScanStates
<1> QED
  BY <1>1, <1>2, <1>3

(* The flags of the one pass tell what was seen so far: the pass rejects whatever *)
(* is not a header, one run of image data among skippable chunks, and an end.     *)
LEMMA ScanIsSound ==
    ASSUME NEW n \in Nat, NEW p \in [1 .. n -> Fetch!Types], Len(p) = n,
            Fetch!ValidatePngStructure(p)
    PROVE  Fetch!WellFormed(p)
<1>1. PICK s : /\ s[0] = Fetch!Begun
               /\ \A i \in 1 .. n : s[i] = Fetch!ScanChunk(s[i - 1], p[i], i = n)
               /\ Fetch!Scan(p) = s[n]
  BY ScanSteps
<1> DEFINE
      Fine(j) == /\ p[j] # "damaged" /\ ((j = 1) <=> (p[j] = "IHDR"))
                 /\ (p[j] = "IEND" => j = n)
                 /\ p[j] = "IDAT" =>
                      \A k \in 1 .. j : \A l \in 1 .. k : p[l] = "IDAT" => p[k] = "IDAT"
      Tells(i) ==
        /\ s[i] \in ScanStates /\ s[i].index = i
        /\ s[i].saw <=> \E j \in 1 .. i : p[j] = "IDAT"
        /\ s[i].closed <=> \E k \in 1 .. i : p[k] # "IDAT" /\ \E l \in 1 .. k : p[l] = "IDAT"
        /\ s[i].ended <=> \E j \in 1 .. i : p[j] = "IEND"
        /\ ~s[i].bad => \A j \in 1 .. i : Fine(j)
<1>2. Tells(0)
  BY <1>1 DEF Fetch!Begun, ScanStates
<1>3. ASSUME NEW i \in 1 .. n, Tells(i - 1)
      PROVE  Tells(i)
  <2> DEFINE r == s[i - 1]
             c == p[i]
  <2>1. /\ s[i] \in ScanStates /\ s[i].index = i
        /\ s[i].saw = (r.saw \/ c = "IDAT")
        /\ s[i].closed = (r.closed \/ (c # "IDAT" /\ r.saw))
        /\ s[i].ended = (r.ended \/ c = "IEND")
        /\ ~s[i].bad => /\ ~r.bad /\ c # "damaged" /\ ~(c = "IDAT" /\ r.closed)
                        /\ (c = "IEND" => i = n) /\ ((i = 1) <=> (c = "IHDR"))
    <3>1. r \in ScanStates /\ r.index = i - 1 /\ s[i] = Fetch!ScanChunk(r, c, i = n)
      BY <1>1, <1>3
    <3>2. ((i = 1) <=> (r.index = 0)) /\ r.index + 1 = i
      BY <3>1
    <3> HIDE DEF r, c
    <3>3. PICK last \in BOOLEAN : last = (i = n)
      OBVIOUS
    <3>4. s[i] = Fetch!ScanChunk(r, c, last)
      BY <3>1, <3>3, Zenon
    <3>5. /\ s[i] \in ScanStates /\ s[i].index = r.index + 1
          /\ s[i].saw = (r.saw \/ c = "IDAT")
          /\ s[i].closed = (r.closed \/ (c # "IDAT" /\ r.saw))
          /\ s[i].ended = (r.ended \/ c = "IEND")
          /\ ~s[i].bad => /\ ~r.bad /\ c # "damaged" /\ ~(c = "IDAT" /\ r.closed)
                          /\ (c = "IEND" => last) /\ ((r.index = 0) <=> (c = "IHDR"))
      BY <3>1, <3>4, OneChunk
    <3>6. last => i = n
      BY <3>3
    <3>7. ~s[i].bad => /\ ~r.bad /\ c # "damaged" /\ ~(c = "IDAT" /\ r.closed)
                       /\ (c = "IEND" => i = n) /\ ((i = 1) <=> (c = "IHDR"))
      BY <3>2, <3>5, <3>6, Zenon
    <3> QED
      BY <3>2, <3>5, <3>7, Zenon
  <2>2. 1 .. i = (1 .. i - 1) \cup {i}
    OBVIOUS
  <2>3. s[i].index = i /\ (s[i].saw <=> \E j \in 1 .. i : p[j] = "IDAT")
                      /\ (s[i].ended <=> \E j \in 1 .. i : p[j] = "IEND")
    BY <2>1, <2>2, <1>3
  <2>4. s[i].closed <=> \E k \in 1 .. i : p[k] # "IDAT" /\ \E l \in 1 .. k : p[l] = "IDAT"
    BY <2>1, <2>2, <1>3
  <2>5. ASSUME ~s[i].bad
        PROVE  \A j \in 1 .. i : Fine(j)
    <3>1. ~r.bad /\ \A j \in 1 .. i - 1 : Fine(j)
      BY <2>1, <2>5, <1>3
    <3>2. c # "damaged" /\ ((i = 1) <=> (c = "IHDR")) /\ (c = "IEND" => i = n)
      BY <2>1, <2>5, <1>3
    <3>3. c = "IDAT" => \A k \in 1 .. i : \A l \in 1 .. k : p[l] = "IDAT" => p[k] = "IDAT"
      BY <2>1, <2>5, <2>2, <1>3
    <3> QED
      BY <3>1, <3>2, <3>3, <2>2
  <2> QED
    BY <2>1, <2>3, <2>4, <2>5
<1>4. Tells(n)
  <2> DEFINE Good == {i \in 0 .. n : Tells(i)}
  <2> HIDE DEF Tells
  <2>1. 0 \in Good /\ \A m \in 1 .. n : m - 1 \in Good => m \in Good
    BY <1>2, <1>3
  <2>2. \A m \in 0 .. n : m \in Good
    <3> HIDE DEF Good
    <3> QED BY <2>1, UpTo
  <2> QED BY <2>2
<1>5. ~s[n].bad /\ s[n].saw /\ s[n].ended
  BY <1>1 DEF Fetch!ValidatePngStructure
<1>6. \A j \in 1 .. n : Fine(j)
  BY <1>4, <1>5
<1>7. PICK d \in 1 .. n : p[d] = "IDAT"
  BY <1>4, <1>5
<1>8. PICK e \in 1 .. n : p[e] = "IEND"
  BY <1>4, <1>5
<1> QED
  BY <1>6, <1>7, <1>8 DEF Fetch!WellFormed

LEMMA FetchedIsPicture ==
    ASSUME NEW p \in Fetch!Chunks, Fetch!ValidatePngStructure(p)
    PROVE  Fetch!WellFormed(p)
<1>1. \E n \in Nat : p \in [1 .. n -> Fetch!Types] /\ Len(p) = n
  <2>1. CASE p \in Fetch!Pictures
    BY <2>1, LengthsAssumption DEF Fetch!Pictures
  <2>2. CASE p = Fetch!NoFile
    <3>1. p \in [1 .. 0 -> Fetch!Types] /\ Len(p) = 0
      BY <2>2 DEF Fetch!NoFile
    <3> QED BY <3>1
  <2>3. CASE p = <<"damaged">>
    <3>1. p \in [1 .. 1 -> Fetch!Types] /\ Len(p) = 1
      BY <2>3 DEF Fetch!Types
    <3> QED BY <3>1
  <2> QED
    BY <2>1, <2>2, <2>3 DEF Fetch!Chunks
<1> QED
  BY <1>1, ScanIsSound

FetchPart == part = "fetch" => Fetch!FetchInv

(* Whatever fails, however hosts and fetches race and whenever the power goes: what  *)
(* is at the name of a ROM is the whole file of the host that put it there, what a   *)
(* host called PASS stays there, durably, and a candidate that is left was told of;  *)
(* and what the output directory of the fetches shows is a complete picture          *)
(* (upload-rom.py, fetch-screen.py).                                                 *)
THEOREM TransfersAreWhole == Spec => []TransferIsWhole
<1>1. Init => UploadPart /\ FetchPart
  <2>1. Upload!UploadInit => Upload!UploadInv
    BY DEF Upload!UploadInit, Upload!UploadInv, Upload!UploadTypes, Upload!ScriptIsLate,
       Upload!CandidateChecked, Upload!LinkedIsWhole, Upload!RollbackIsOwn, Upload!MarkIsTrue,
       Upload!CandidateIsBetween, Upload!LeftoverIsNamed, Upload!Checked, Upload!Linked,
       Upload!ScriptAt, Upload!HostAt, Upload!Publishes, Upload!Files, Upload!Absent,
       Upload!None, Upload!Torn
  <2> QED
    BY <2>1, FetchBegins DEF Init, UploadPart, FetchPart
<1>2. UploadPart /\ FetchPart /\ [Next]_mcVars => (UploadPart /\ FetchPart)'
  BY OwnSteps, UploadInductive, FetchInductive DEF UploadPart, FetchPart
<1>3. UploadPart /\ FetchPart => TransferIsWhole
  <2>1. Upload!UploadInv =>
          Upload!FinalIsWhole /\ Upload!PassIsTrue /\ Upload!LeftoverIsNamed
    BY DEF Upload!UploadInv, Upload!UploadTypes, Upload!ScriptIsLate,
       Upload!CandidateChecked, Upload!LinkedIsWhole, Upload!RollbackIsOwn, Upload!MarkIsTrue,
       Upload!CandidateIsBetween, Upload!LeftoverIsNamed, Upload!Checked, Upload!Linked,
       Upload!ScriptAt, Upload!HostAt, Upload!Publishes, Upload!Files, Upload!Absent,
       Upload!None, Upload!Torn, Upload!FinalIsWhole, Upload!PassIsTrue
  <2>2. Fetch!FetchInv => Fetch!FinalIsPicture
    BY FetchedIsPicture DEF Fetch!FetchInv, Fetch!FetchTypes, Fetch!LinkedIsChecked,
       Fetch!FinalIsPicture
  <2> QED
    BY <2>1, <2>2 DEF UploadPart, FetchPart, TransferIsWhole
<1> QED
  BY <1>1, <1>2, <1>3, PTL DEF Spec

-----------------------------------------------------------------------------
(* Remote control. *)

(* A request repeats what its client knows, under an id of its own. *)
LEMMA RequestOfKnown ==
    ASSUME NEW m \in Remote!Msgs, NEW op \in Remote!Ops, NEW i \in Nat, NEW r,
           r = [m EXCEPT !.op = op, !.id = i]
    PROVE  r \in Remote!Msgs /\ r.op = op /\ r.id = i
  BY DEF Remote!Msgs, Remote!Ops

LEMMA RemoteSends ==
    ASSUME NEW c \in Peers, NEW op \in Remote!Ops, Remote!Send(c, op), Remote!RequestInv
    PROVE  Remote!RequestInv'
<1> DEFINE session == x1  seq == x2  bin == x3  served == x4  injecting == x5  acts == x6
           out == x7  back == x8  know == x9  at == x10  want == x11  samples == x12
           picture == x13  trace == x14  requests == x15
<1> DEFINE r == [know[c] EXCEPT !.op = op, !.id = requests + 1]
<1>1. /\ requests' = requests + 1 /\ want' = [want EXCEPT ![c] = r] /\ out' = out \cup {r}
      /\ at' = [at EXCEPT ![c] = "waiting"]
      /\ UNCHANGED <<session, seq, bin, served, injecting, acts, back, know, samples, picture,
                    trace>>
  BY DEF Remote!Send, Remote!shell, Remote!files
<1>2. r \in Remote!Msgs /\ r.id = requests + 1
  <2>1. know[c] \in Remote!Msgs /\ requests + 1 \in Nat
    BY DEF Remote!RequestInv, Remote!MsgTypes
  <2>2. PICK m \in Remote!Msgs, i \in Nat : m = know[c] /\ i = requests + 1
    BY <2>1
  <2>3. r = [m EXCEPT !.op = op, !.id = i]
    BY <2>2
  <2> HIDE DEF r
  <2>4. r \in Remote!Msgs /\ r.id = i
    BY <2>3 DEF Remote!Msgs
  <2> QED
    BY <2>2, <2>4
<1> HIDE DEF r
<1>3. Remote!MsgTypes'
  BY <1>1, <1>2 DEF Remote!RequestInv, Remote!MsgTypes
<1>4. Remote!ActsInv'
  BY <1>1 DEF Remote!RequestInv, Remote!ActsInv, Remote!ActTypes, Remote!PastIsPast,
     Remote!ActsOnce
<1>5. Remote!Travelling' = Remote!Travelling \cup {r}
  BY <1>1 DEF Remote!Travelling
<1>6. Remote!IdsAreOwn'
  <2>1. requests \in Nat /\ \A d \in Peers : want[d].id \in Nat
    BY DEF Remote!RequestInv, Remote!MsgTypes, Remote!Msgs
  <2>2. \A m \in Remote!Travelling \cup back :
          m \in Remote!Msgs /\ 1 <= m.id /\ m.id <= requests
    BY DEF Remote!RequestInv, Remote!IdsAreOwn, Remote!MsgTypes, Remote!Travelling
  <2>3. \A m \in Remote!Travelling' \cup back' : 1 <= m.id /\ m.id <= requests'
    BY <1>1, <1>2, <1>5, <2>1, <2>2 DEF Remote!Msgs
  <2>4. ASSUME NEW d \in Peers
        PROVE  /\ want'[d].id <= requests'
               /\ at'[d] \in {"waiting", "picture", "trace"} => 1 <= want'[d].id
               /\ \A m \in Remote!Travelling' : m.id = want'[d].id => m = want'[d]
    <3>1. CASE d = c
      <4>1. want'[d] = r
        BY <1>1, <3>1 DEF Remote!RequestInv, Remote!MsgTypes
      <4> QED
        BY <1>1, <1>2, <1>5, <2>1, <2>2, <4>1 DEF Remote!Msgs
    <3>2. CASE d # c
      <4>1. want'[d] = want[d] /\ at'[d] = at[d]
        BY <1>1, <3>2 DEF Remote!RequestInv, Remote!MsgTypes
      <4> QED
        BY <1>1, <1>2, <1>5, <2>1, <4>1 DEF Remote!RequestInv, Remote!IdsAreOwn
    <3> QED BY <3>1, <3>2
  <2>5. \A d, e \in Peers : d # e /\ want'[d].id = want'[e].id => want'[d].id = 0
    BY <1>1, <1>2, <2>1 DEF Remote!RequestInv, Remote!IdsAreOwn, Remote!MsgTypes
  <2> QED
    BY <2>3, <2>4, <2>5 DEF Remote!IdsAreOwn
<1>7. \A d \in Peers : d # c => want'[d] = want[d]
  BY <1>1 DEF Remote!RequestInv, Remote!MsgTypes
<1>8. want'[c].id = requests + 1 /\ at'[c] = "waiting"
  BY <1>1, <1>2 DEF Remote!RequestInv, Remote!MsgTypes
<1>9. \A m : Remote!Done(m)' <=> Remote!Done(m)
  BY <1>1 DEF Remote!Done
<1>10. Remote!AnswersAreDone'
  <2>1. \A a \in back : a.id # want'[c].id
    BY <1>8 DEF Remote!RequestInv, Remote!MsgTypes, Remote!IdsAreOwn, Remote!Msgs
  <2>2. ASSUME NEW d \in Peers, NEW a \in back, NEW m,
               m = want'[d], a.id = m.id, Remote!Mutates(m)
        PROVE  Remote!Done(m)'
    <3>1. m = want[d]
      BY <1>7, <2>1, <2>2
    <3>2. Remote!Done(m)
      BY <2>2, <3>1 DEF Remote!RequestInv, Remote!AnswersAreDone
    <3> QED
      BY <1>9, <3>2
  <2>3. injecting' => served' # Remote!None /\ Remote!Mutates(served)' /\ Remote!Done(served)'
    BY <1>1 DEF Remote!RequestInv, Remote!AnswersAreDone, Remote!Mutates, Remote!Done
  <2>4. \A d \in Peers : \A a \in back' :
          a.id = want'[d].id /\ Remote!Mutates(want[d])' => Remote!Done(want[d])'
    BY <1>1, <2>2 DEF Remote!Mutates, Remote!Done
  <2> QED
    BY <2>3, <2>4 DEF Remote!AnswersAreDone, Remote!Mutates, Remote!Done
<1>11. Remote!RecordsAreOwn'
  <2>1. \A t \in trace : t.id \in Nat /\ t.id <= requests + 1 /\ t.id # requests + 1
    BY DEF Remote!RequestInv, Remote!RecordsAreOwn, Remote!MsgTypes
  <2>2. ASSUME NEW d \in Peers, at'[d] \in {"waiting", "picture", "trace"}
        PROVE  \A t \in trace : t.id # want'[d].id
    <3>1. d # c => at'[d] = at[d]
      BY <1>1 DEF Remote!RequestInv, Remote!MsgTypes
    <3> QED
      BY <1>7, <1>8, <2>1, <2>2, <3>1 DEF Remote!RequestInv, Remote!RecordsAreOwn
  <2> QED
    BY <1>1, <2>1, <2>2 DEF Remote!RequestInv, Remote!RecordsAreOwn
<1>12. Remote!AnswerIsOwnAct'
  BY <1>1, <1>7, <1>8 DEF Remote!RequestInv, Remote!AnswerIsOwnAct, Remote!Mutates,
     Remote!MsgTypes
<1>13. Remote!RecordIsWhole'
  BY <1>1 DEF Remote!RequestInv, Remote!RecordIsWhole
<1> QED
  BY <1>3, <1>4, <1>6, <1>10, <1>11, <1>12, <1>13 DEF Remote!RequestInv

(* An answer that a client takes was made for its request. *)
LEMMA RemoteAnswers ==
    ASSUME NEW c \in Peers, NEW a \in x8, Remote!GetAnswer(c, a), Remote!RequestInv
    PROVE  Remote!RequestInv'
<1> DEFINE session == x1  seq == x2  bin == x3  served == x4  injecting == x5  acts == x6
           out == x7  back == x8  know == x9  at == x10  want == x11  samples == x12
           picture == x13  trace == x14  requests == x15
<1> USE DEF Remote!Valid, Remote!SameTarget
<1>1. /\ back' = back \ {a}
      /\ UNCHANGED <<session, seq, bin, served, injecting, acts, out, want, picture, trace,
                    requests>>
  BY DEF Remote!GetAnswer, Remote!shell, Remote!files
<1>2. PICK step \in {"idle", "recording", "picture", "trace"} : at' = [at EXCEPT ![c] = step]
  BY DEF Remote!GetAnswer, Remote!EndEarly
<1>3. at[c] = "waiting" /\ a.id = want[c].id
  BY DEF Remote!GetAnswer
<1>4. a \in Remote!Msgs /\ c \in DOMAIN samples /\ samples[c] \in Seq(Remote!Msgs)
  BY DEF Remote!RequestInv, Remote!MsgTypes
<1>5. \/ samples' = samples
      \/ Remote!SameTarget(c, a) /\ samples' = [samples EXCEPT ![c] = Append(samples[c], a)]
  BY DEF Remote!GetAnswer
<1>6. Remote!MsgTypes'
  <2>1. samples' \in [Peers -> Seq(Remote!Msgs)]
    <3>1. Append(samples[c], a) \in Seq(Remote!Msgs)
      BY <1>4
    <3> QED
      BY <3>1, <1>5 DEF Remote!RequestInv, Remote!MsgTypes
  <2>2. know' \in [Peers -> Remote!Msgs]
    <3>1. know' = know \/ know' = [know EXCEPT ![c] = a]
      BY DEF Remote!GetAnswer
    <3> QED
      BY <1>4, <3>1 DEF Remote!RequestInv, Remote!MsgTypes
  <2> QED
    BY <1>1, <1>2, <1>4, <2>1, <2>2 DEF Remote!RequestInv, Remote!MsgTypes
<1>7. Remote!ActsInv'
  BY <1>1 DEF Remote!RequestInv, Remote!ActsInv, Remote!ActTypes, Remote!PastIsPast,
     Remote!ActsOnce
<1>8. \A d \in Peers : at'[d] = at[d] \/ (d = c /\ at[c] = "waiting" /\ at'[d] = step)
  BY <1>2, <1>3 DEF Remote!RequestInv, Remote!MsgTypes
<1>9. Remote!IdsAreOwn'
  BY <1>1, <1>8 DEF Remote!RequestInv, Remote!IdsAreOwn, Remote!Travelling
<1>10. Remote!AnswersAreDone'
  BY <1>1 DEF Remote!RequestInv, Remote!AnswersAreDone, Remote!Mutates, Remote!Done
<1>11. Remote!RecordsAreOwn'
  <2>1. ASSUME NEW d \in Peers
        PROVE  \A i, j \in DOMAIN samples'[d] :
                   /\ samples'[d][i].session = samples'[d][j].session
                   /\ samples'[d][i].bin = samples'[d][j].bin
    <3>1. CASE samples'[d] = samples[d]
      BY <3>1 DEF Remote!RequestInv, Remote!RecordsAreOwn
    <3>2. CASE Remote!SameTarget(c, a) /\ d = c /\ samples'[d] = Append(samples[c], a)
      <4>1. \A i \in DOMAIN samples'[d] :
              \/ i \in DOMAIN samples[c] /\ samples'[d][i] = samples[c][i]
              \/ samples'[d][i] = a
        BY <1>4, <3>2
      <4> QED
        BY <3>2, <4>1 DEF Remote!RequestInv, Remote!RecordsAreOwn
    <3> QED
      BY <1>5, <3>1, <3>2 DEF Remote!RequestInv, Remote!MsgTypes
  <2> QED
    BY <1>1, <1>8, <2>1 DEF Remote!RequestInv, Remote!RecordsAreOwn
<1>12. Remote!AnswerIsOwnAct'
  <2>1. CASE Remote!Mutates(want[c])
    <3>1. Remote!Done(want[c])
      BY <1>3, <2>1 DEF Remote!RequestInv, Remote!AnswersAreDone
    <3> QED
      BY <1>1, <1>8, <3>1 DEF Remote!RequestInv, Remote!AnswerIsOwnAct, Remote!Done,
         Remote!Mutates
  <2>2. CASE ~Remote!Mutates(want[c])
    BY <1>1, <1>8, <2>2 DEF Remote!RequestInv, Remote!AnswerIsOwnAct, Remote!Mutates
  <2> QED
    BY <2>1, <2>2
<1>13. Remote!RecordIsWhole'
  BY <1>1 DEF Remote!RequestInv, Remote!RecordIsWhole
<1> QED
  BY <1>6, <1>7, <1>9, <1>10, <1>11, <1>12, <1>13 DEF Remote!RequestInv

(* Whatever a client publishes has an id that nothing published has. *)
LEMMA RemoteSaves ==
    ASSUME NEW c \in Peers, Remote!RequestInv,
           Remote!GiveUp(c) \/ Remote!SavePicture(c) \/ Remote!SaveTrace(c) \/
           Remote!TraceFails(c)
    PROVE  Remote!RequestInv'
<1> DEFINE session == x1  seq == x2  bin == x3  served == x4  injecting == x5  acts == x6
           out == x7  back == x8  know == x9  at == x10  want == x11  samples == x12
           picture == x13  trace == x14  requests == x15
<1>1. UNCHANGED <<session, seq, bin, served, injecting, acts, out, back, know, want, requests>>
  BY DEF Remote!GiveUp, Remote!SavePicture, Remote!SaveTrace, Remote!TraceFails, Remote!shell
<1>2. PICK step \in {"idle", "trace"} :
        /\ at' = [at EXCEPT ![c] = step] /\ at[c] \in {"waiting", "picture", "trace"}
        /\ trace' # trace => at[c] = "trace" /\ step = "idle"
  BY DEF Remote!GiveUp, Remote!SavePicture, Remote!SaveTrace, Remote!TraceFails,
     Remote!EndEarly, Remote!files
<1>3. samples' \in {samples, [samples EXCEPT ![c] = <<>>]}
  BY DEF Remote!GiveUp, Remote!SavePicture, Remote!SaveTrace, Remote!TraceFails
<1>4. \A d \in Peers : at'[d] = at[d] \/ (d = c /\ at'[d] = step)
  BY <1>2 DEF Remote!RequestInv, Remote!MsgTypes
<1>5. Remote!MsgTypes'
  <2>1. <<>> \in Seq(Remote!Msgs)
    OBVIOUS
  <2>2. samples' \in [Peers -> Seq(Remote!Msgs)]
    BY <1>3, <2>1 DEF Remote!RequestInv, Remote!MsgTypes
  <2> QED
    BY <1>1, <1>2, <2>2 DEF Remote!RequestInv, Remote!MsgTypes
<1>6. Remote!ActsInv'
  BY <1>1 DEF Remote!RequestInv, Remote!ActsInv, Remote!ActTypes, Remote!PastIsPast,
     Remote!ActsOnce
<1>7. Remote!IdsAreOwn'
  BY <1>1, <1>2, <1>4 DEF Remote!RequestInv, Remote!IdsAreOwn, Remote!Travelling
<1>8. Remote!AnswersAreDone'
  BY <1>1 DEF Remote!RequestInv, Remote!AnswersAreDone, Remote!Mutates, Remote!Done
<1>9. Remote!AnswerIsOwnAct'
  BY <1>1, <1>4 DEF Remote!RequestInv, Remote!AnswerIsOwnAct, Remote!Mutates
<1>10. \A d \in Peers : samples'[d] \in {samples[d], <<>>}
  BY <1>3 DEF Remote!RequestInv, Remote!MsgTypes
<1>11. \A d \in Peers : want[d].id \in Nat
  BY DEF Remote!RequestInv, Remote!MsgTypes, Remote!Msgs
<1>12. \A d \in Peers : \A i, j \in DOMAIN samples'[d] :
          /\ samples'[d][i].session = samples'[d][j].session
          /\ samples'[d][i].bin = samples'[d][j].bin
  BY <1>10 DEF Remote!RequestInv, Remote!RecordsAreOwn
<1>13. CASE Remote!SaveTrace(c)
  <2> DEFINE new == [id |-> want[c].id, picture |-> want[c].id \in picture,
                     samples |-> samples[c]]
  <2>1. /\ trace' = trace \cup {new} /\ picture' = picture /\ at[c] = "trace" /\ at'[c] = "idle"
    BY <1>13 DEF Remote!SaveTrace, Remote!RequestInv, Remote!MsgTypes
  <2>2. /\ new.id = want[c].id /\ new.picture = (want[c].id \in picture)
        /\ new.samples = samples[c]
    OBVIOUS
  <2> HIDE DEF new
  <2>3. want[c].id <= requests /\ want[c].id >= 1
    BY <2>1 DEF Remote!RequestInv, Remote!IdsAreOwn
  <2>4. \A d \in Peers : d # c => want[d].id # want[c].id
    BY <1>11, <2>3 DEF Remote!RequestInv, Remote!IdsAreOwn
  <2>5. Remote!RecordsAreOwn'
    BY <1>1, <1>4, <1>11, <1>12, <2>1, <2>2, <2>3, <2>4 DEF Remote!RequestInv,
       Remote!RecordsAreOwn
  <2>6. Remote!RecordIsWhole'
    <3>1. new.picture => new.id \in picture
      BY <2>2
    <3>2. \A i, j \in DOMAIN new.samples : /\ new.samples[i].session = new.samples[j].session
                                         /\ new.samples[i].bin = new.samples[j].bin
      BY <2>2 DEF Remote!RequestInv, Remote!RecordsAreOwn
    <3> QED
      BY <2>1, <3>1, <3>2 DEF Remote!RequestInv, Remote!RecordIsWhole
  <2> QED
    BY <1>5, <1>6, <1>7, <1>8, <1>9, <2>5, <2>6 DEF Remote!RequestInv
<1>14. CASE ~Remote!SaveTrace(c)
  <2>1. trace' = trace /\ \A i \in picture :
        i \in picture' \/ (i = want[c].id /\ at[c] = "trace")
    BY <1>14 DEF Remote!GiveUp, Remote!SavePicture, Remote!TraceFails, Remote!files
  <2>2. Remote!RecordsAreOwn'
    BY <1>1, <1>2, <1>4, <1>12, <2>1 DEF Remote!RequestInv, Remote!RecordsAreOwn
  <2>3. Remote!RecordIsWhole'
    BY <2>1 DEF Remote!RequestInv, Remote!RecordIsWhole, Remote!RecordsAreOwn
  <2> QED
    BY <1>5, <1>6, <1>7, <1>8, <1>9, <2>2, <2>3 DEF Remote!RequestInv
<1> QED
  BY <1>13, <1>14

(* A connection that comes or goes answers nothing. *)
LEMMA RemoteServes ==
    ASSUME Remote!RequestInv,
           (\E r \in x7 : Remote!Connect(r) \/ Remote!Refuse(r)) \/
           Remote!Disconnect \/ Remote!Stale
    PROVE  Remote!RequestInv'
<1> DEFINE session == x1  seq == x2  bin == x3  served == x4  injecting == x5  acts == x6
           out == x7  back == x8  know == x9  at == x10  want == x11  samples == x12
           picture == x13  trace == x14  requests == x15
<1>1. UNCHANGED <<session, seq, bin, acts, back, know, at, want, samples, picture, trace,
              requests>>
  BY DEF Remote!Connect, Remote!Refuse, Remote!Disconnect, Remote!Stale, Remote!shell,
     Remote!host, Remote!files
<1>2. /\ served' \in Remote!Msgs /\ injecting' \in BOOLEAN /\ out' \subseteq Remote!Msgs
      /\ Remote!Travelling' \subseteq Remote!Travelling
      /\ injecting' => injecting /\ served' = served
  <2>1. injecting => served # Remote!None
    BY DEF Remote!RequestInv, Remote!AnswersAreDone
  <2>2. Remote!None \in Remote!Msgs
    BY DEF Remote!None, Remote!Msgs
  <2> QED
    <3>1. ASSUME NEW r \in out, Remote!Connect(r) \/ Remote!Refuse(r)
          PROVE  /\ served' \in {served, r} /\ injecting' = injecting /\ out' \subseteq out
                 /\ served = Remote!None \/ served' = served
      BY <3>1 DEF Remote!Connect, Remote!Refuse, Remote!shell
    <3>2. CASE \E r \in out : Remote!Connect(r) \/ Remote!Refuse(r)
      BY <2>1, <3>1, <3>2 DEF Remote!RequestInv, Remote!MsgTypes, Remote!Travelling
    <3>3. CASE Remote!Disconnect \/ Remote!Stale
      <4>1. served' = Remote!None /\ out' = out /\ injecting' \in BOOLEAN /\ ~injecting'
        <5>1. CASE Remote!Disconnect
          BY <5>1 DEF Remote!Disconnect
        <5>2. CASE Remote!Stale
          <6>1. injecting' = injecting /\ injecting \in BOOLEAN
            BY <5>2 DEF Remote!Stale, Remote!RequestInv, Remote!MsgTypes
          <6> QED
            BY <5>2, <6>1 DEF Remote!Stale
        <5> QED
          BY <3>3, <5>1, <5>2
      <4> QED
        BY <2>2, <4>1 DEF Remote!RequestInv, Remote!MsgTypes, Remote!Travelling
    <3> QED
      BY <3>2, <3>3
<1>3. Remote!MsgTypes'
  BY <1>1, <1>2 DEF Remote!RequestInv, Remote!MsgTypes
<1>4. Remote!ActsInv'
  BY <1>1 DEF Remote!RequestInv, Remote!ActsInv, Remote!ActTypes, Remote!PastIsPast,
     Remote!ActsOnce
<1>5. Remote!IdsAreOwn'
  BY <1>1, <1>2 DEF Remote!RequestInv, Remote!IdsAreOwn
<1>6. Remote!AnswersAreDone'
  BY <1>1, <1>2 DEF Remote!RequestInv, Remote!AnswersAreDone, Remote!Mutates, Remote!Done
<1>7. Remote!RecordsAreOwn' /\ Remote!AnswerIsOwnAct' /\ Remote!RecordIsWhole'
  BY <1>1 DEF Remote!RequestInv, Remote!RecordsAreOwn, Remote!AnswerIsOwnAct,
     Remote!RecordIsWhole, Remote!Mutates
<1> QED
  BY <1>3, <1>4, <1>5, <1>6, <1>7 DEF Remote!RequestInv

(* A restart begins at zero again, in a session that nothing was executed in. *)
LEMMA RemoteRestarts ==
    ASSUME Remote!RequestInv, Remote!Restart
    PROVE  Remote!RequestInv'
<1> DEFINE session == x1  seq == x2  bin == x3  served == x4  injecting == x5  acts == x6
           out == x7  back == x8  know == x9  at == x10  want == x11  samples == x12
           picture == x13  trace == x14  requests == x15
<1>1. /\ session' = session + 1 /\ seq' = 0 /\ bin' \in Binaries /\ served' = Remote!None
      /\ injecting' = FALSE
      /\ UNCHANGED <<acts, out, back, know, at, want, samples, picture, trace, requests>>
  BY DEF Remote!Restart, Remote!host, Remote!files
<1>2. Remote!MsgTypes'
  <2>1. Remote!None \in Remote!Msgs
    BY DEF Remote!None, Remote!Msgs
  <2>2. session' \in Nat /\ seq' \in Nat
    BY <1>1 DEF Remote!RequestInv, Remote!MsgTypes
  <2>3. served' \in Remote!Msgs
    BY <1>1, <2>1
  <2>4. bin' \in Binaries /\ injecting' \in BOOLEAN
    BY <1>1
  <2> QED
    BY <1>1, <2>2, <2>3, <2>4 DEF Remote!RequestInv, Remote!MsgTypes
<1>3. Remote!ActsInv'
  BY <1>1 DEF Remote!RequestInv, Remote!ActsInv, Remote!ActTypes, Remote!PastIsPast,
     Remote!ActsOnce
<1>4. Remote!IdsAreOwn'
  BY <1>1 DEF Remote!RequestInv, Remote!IdsAreOwn, Remote!Travelling
<1>5. Remote!AnswersAreDone'
  BY <1>1 DEF Remote!RequestInv, Remote!AnswersAreDone, Remote!Mutates, Remote!Done
<1>6. Remote!RecordsAreOwn' /\ Remote!AnswerIsOwnAct' /\ Remote!RecordIsWhole'
  BY <1>1 DEF Remote!RequestInv, Remote!RecordsAreOwn, Remote!AnswerIsOwnAct,
     Remote!RecordIsWhole, Remote!Mutates
<1> QED
  BY <1>2, <1>3, <1>4, <1>5, <1>6 DEF Remote!RequestInv

(* An action that is executed moves the sequence number past its own. *)
LEMMA RemoteReplies ==
    ASSUME Remote!RequestInv, Remote!Observe \/ Remote!Execute \/ Remote!GameEnds
    PROVE  Remote!RequestInv'
<1> DEFINE session == x1  seq == x2  bin == x3  served == x4  injecting == x5  acts == x6
           out == x7  back == x8  know == x9  at == x10  want == x11  samples == x12
           picture == x13  trace == x14  requests == x15
<1>1. /\ UNCHANGED <<session, bin, out, know, at, want, samples, picture, trace, requests>>
      /\ seq' \in {seq, seq + 1} /\ seq' \in Nat
  BY DEF Remote!Observe, Remote!Execute, Remote!GameEnds, Remote!host, Remote!files,
     Remote!RequestInv, Remote!MsgTypes
<1>2. served # Remote!None /\ served \in Remote!Msgs /\ served \in Remote!Travelling
  BY DEF Remote!Observe, Remote!Execute, Remote!GameEnds, Remote!RequestInv,
     Remote!AnswersAreDone, Remote!MsgTypes, Remote!Travelling
<1>3. Remote!Answer \in Remote!Msgs /\ Remote!Answer.id = served.id
  BY <1>1, <1>2 DEF Remote!Answer, Remote!Msgs, Remote!RequestInv, Remote!MsgTypes
<1>4. \/ back' = back \cup {Remote!Answer} /\ served' = Remote!None /\ injecting' = FALSE
      \/ back' = back /\ served' = served /\ injecting' = TRUE /\ Remote!Execute
  BY DEF Remote!Observe, Remote!Execute, Remote!GameEnds, Remote!Reply
<1>5. Remote!MsgTypes'
  <2>1. Remote!None \in Remote!Msgs
    BY DEF Remote!None, Remote!Msgs
  <2> QED
    <3>1. served' \in Remote!Msgs /\ back' \subseteq Remote!Msgs /\ injecting' \in BOOLEAN
      BY <1>2, <1>3, <1>4, <2>1 DEF Remote!RequestInv, Remote!MsgTypes
    <3> QED
      BY <1>1, <3>1 DEF Remote!RequestInv, Remote!MsgTypes
<1>6. Remote!ActsInv' /\ \A a \in acts : a \in acts'
  <2>1. CASE Remote!Execute
    <3> DEFINE new == [session |-> session, seq |-> seq, bin |-> bin,
                       asked |-> served.seq, id |-> served.id]
    <3>1. acts' = acts \cup {new} /\ served.seq = seq /\ seq' = seq + 1
      BY <2>1 DEF Remote!Execute, Remote!Current
    <3>2. new.session = session /\ new.asked = seq
      BY <3>1
    <3> HIDE DEF new
    <3>3. Remote!ActTypes' /\ Remote!PastIsPast'
      BY <1>1, <3>1, <3>2 DEF Remote!RequestInv, Remote!ActsInv, Remote!ActTypes,
         Remote!PastIsPast
    <3>4. Remote!ActsOnce'
      <4>1. \A a \in acts : ~(a.session = new.session /\ a.asked = new.asked)
        BY <3>2 DEF Remote!RequestInv, Remote!ActsInv, Remote!ActTypes, Remote!PastIsPast
      <4> QED
        BY <3>1, <4>1 DEF Remote!RequestInv, Remote!ActsInv, Remote!ActsOnce
    <3> QED
      BY <1>1, <3>1, <3>3, <3>4 DEF Remote!RequestInv, Remote!ActsInv
  <2>2. CASE ~Remote!Execute
    <3>1. acts' = acts /\ seq' = seq
      BY <2>2 DEF Remote!Observe, Remote!GameEnds
    <3> QED
      BY <1>1, <3>1 DEF Remote!RequestInv, Remote!ActsInv, Remote!ActTypes, Remote!PastIsPast,
         Remote!ActsOnce
  <2> QED
    BY <2>1, <2>2
<1>7. Remote!Mutates(served) => \E a \in acts' :
        /\ a.id = served.id /\ a.session = served.session
        /\ a.seq = served.seq /\ a.bin = served.bin
  <2>1. CASE Remote!Execute
    <3> DEFINE new == [session |-> session, seq |-> seq, bin |-> bin,
                       asked |-> served.seq, id |-> served.id]
    <3>1. /\ acts' = acts \cup {new}
          /\ served.seq = seq /\ served.session = session /\ served.bin = bin
      BY <2>1 DEF Remote!Execute, Remote!Current
    <3>2. /\ new.id = served.id /\ new.session = served.session
          /\ new.seq = served.seq /\ new.bin = served.bin
      BY <3>1
    <3> HIDE DEF new
    <3> QED
      BY <3>1, <3>2
  <2>2. CASE Remote!Observe
    BY <2>2 DEF Remote!Observe
  <2>3. CASE Remote!GameEnds
    BY <2>3, <1>6 DEF Remote!GameEnds, Remote!RequestInv, Remote!AnswersAreDone, Remote!Done
  <2> QED
    BY <2>1, <2>2, <2>3
<1>8. Remote!Travelling' \subseteq Remote!Travelling
  BY <1>1, <1>4 DEF Remote!Travelling
<1>9. Remote!IdsAreOwn'
  BY <1>1, <1>2, <1>3, <1>4, <1>8 DEF Remote!RequestInv, Remote!IdsAreOwn
<1>10. Remote!AnswersAreDone'
  <2>1. injecting' => served' = served /\ Remote!Mutates(served)
    BY <1>4 DEF Remote!Execute
  <2>2. ASSUME NEW d \in Peers, NEW a \in back', NEW m,
               m = want[d], a.id = m.id, Remote!Mutates(m)
        PROVE  Remote!Done(m)'
    <3>1. CASE a \in back
      BY <1>6, <2>2, <3>1 DEF Remote!RequestInv, Remote!AnswersAreDone, Remote!Done
    <3>2. CASE a = Remote!Answer
      <4>1. m = served
        BY <1>2, <1>3, <2>2, <3>2 DEF Remote!RequestInv, Remote!IdsAreOwn
      <4> QED
        BY <1>7, <2>2, <4>1 DEF Remote!Done
    <3> QED
      BY <1>4, <3>1, <3>2
  <2>3. \A d \in Peers : \A a \in back' :
          a.id = want'[d].id /\ Remote!Mutates(want[d])' => Remote!Done(want[d])'
    BY <1>1, <2>2 DEF Remote!Mutates, Remote!Done
  <2> QED
    BY <1>2, <1>7, <2>1, <2>3 DEF Remote!AnswersAreDone, Remote!Mutates, Remote!Done
<1>11. Remote!RecordsAreOwn' /\ Remote!RecordIsWhole'
  BY <1>1 DEF Remote!RequestInv, Remote!RecordsAreOwn, Remote!RecordIsWhole
<1>12. Remote!AnswerIsOwnAct'
  BY <1>1, <1>6 DEF Remote!RequestInv, Remote!AnswerIsOwnAct, Remote!Mutates
<1> QED
  BY <1>5, <1>6, <1>9, <1>10, <1>11, <1>12 DEF Remote!RequestInv

LEMMA RemoteInductive ==
    ASSUME Remote!RequestInv, [Remote!ControlNext]_(Remote!controlVars)
    PROVE  Remote!RequestInv'
<1> DEFINE back == x8
<1>1. CASE UNCHANGED Remote!controlVars
  BY <1>1 DEF Remote!controlVars, Remote!shell, Remote!host, Remote!files,
     Remote!RequestInv, Remote!MsgTypes, Remote!ActsInv, Remote!ActTypes, Remote!PastIsPast,
     Remote!ActsOnce, Remote!IdsAreOwn, Remote!Travelling, Remote!AnswersAreDone,
     Remote!Mutates, Remote!Done, Remote!RecordsAreOwn,
     Remote!AnswerIsOwnAct, Remote!RecordIsWhole
<1>2. ASSUME NEW c \in Peers, NEW op \in Remote!Ops, Remote!Send(c, op)
      PROVE  Remote!RequestInv'
  BY <1>2, RemoteSends
<1>3. ASSUME NEW c \in Peers, NEW a \in back, Remote!GetAnswer(c, a)
      PROVE  Remote!RequestInv'
  BY <1>3, RemoteAnswers
<1> QED
  BY <1>1, <1>2, <1>3, RemoteSaves, RemoteServes, RemoteReplies,
     RemoteRestarts DEF Remote!ControlNext

RemotePart == part = "remote" => Remote!RequestInv

(* However many clients repeat their requests, however late requests and answers come, *)
(* and however often the shell is restarted: no state of a session is acted on twice,  *)
(* an action that was answered was executed for the request it answers, and a record   *)
(* that names a picture finds it (control.py, control.cpp).                            *)
THEOREM RequestsActOnce == Spec => []RequestActsOnce
<1>1. Init => RemotePart
  <2>1. Remote!ControlInit => Remote!RequestInv
    <3>1. Remote!None \in Remote!Msgs /\ <<>> \in Seq(Remote!Msgs)
      BY DEF Remote!None, Remote!Msgs
    <3> SUFFICES ASSUME Remote!ControlInit PROVE Remote!RequestInv
      OBVIOUS
    <3>2. Remote!MsgTypes
      <4>1. x5 \in BOOLEAN
        BY Zenon DEF Remote!ControlInit
      <4>2. /\ x4 \in Remote!Msgs /\ x9 \in [Peers -> Remote!Msgs]
            /\ x11 \in [Peers -> Remote!Msgs]
        BY <3>1 DEF Remote!ControlInit
      <4>3. x12 \in [Peers -> Seq(Remote!Msgs)]
        BY <3>1 DEF Remote!ControlInit
      <4>4. x10 \in [Peers -> {"idle", "waiting", "recording", "picture", "trace"}]
        BY DEF Remote!ControlInit
      <4>5. /\ x1 \in Nat /\ x2 \in Nat /\ x15 \in Nat /\ x3 \in Binaries
            /\ x7 \subseteq Remote!Msgs /\ x8 \subseteq Remote!Msgs
        BY DEF Remote!ControlInit
      <4> QED
        BY <4>1, <4>2, <4>3, <4>4, <4>5 DEF Remote!MsgTypes
    <3>3. Remote!None.id = 0 /\ ~Remote!Mutates(Remote!None)
      BY DEF Remote!None, Remote!Mutates
    <3>4. Remote!ActsInv
      BY DEF Remote!ControlInit, Remote!ActsInv, Remote!ActTypes, Remote!PastIsPast,
         Remote!ActsOnce
    <3>5. Remote!IdsAreOwn
      BY <3>3 DEF Remote!ControlInit, Remote!IdsAreOwn, Remote!Travelling
    <3>6. Remote!AnswersAreDone
      BY <3>3 DEF Remote!ControlInit, Remote!AnswersAreDone
    <3>7. Remote!RecordsAreOwn
      BY DEF Remote!ControlInit, Remote!RecordsAreOwn
    <3>8. Remote!AnswerIsOwnAct /\ Remote!RecordIsWhole
      BY DEF Remote!ControlInit, Remote!AnswerIsOwnAct, Remote!RecordIsWhole
    <3> QED
      BY <3>2, <3>4, <3>5, <3>6, <3>7, <3>8 DEF Remote!RequestInv
  <2> QED
    BY <2>1 DEF Init, RemotePart
<1>2. RemotePart /\ [Next]_mcVars => RemotePart'
  BY OwnSteps, RemoteInductive DEF RemotePart
<1>3. RemotePart => RequestActsOnce
  BY DEF RemotePart, RequestActsOnce, Remote!RequestInv, Remote!ActsInv
<1> QED
  BY <1>1, <1>2, <1>3, PTL DEF Spec

-----------------------------------------------------------------------------
(* The CPU policy.  Whatever was found in force, the writes that are left lead to   *)
(* the profile that is to be written: the bound that would cross the other one in   *)
(* force waits.                                                                     *)
LEMMA OrderLeads ==
    ASSUME Cpu!CpuTypes, NEW p, p.min \in Nat, p.max \in Nat, x6' = Cpu!Order(p), x1' = x1
    PROVE  Cpu!Leads(p)'
  BY DEF Cpu!Order, Cpu!Leads, Cpu!CpuTypes, Cpu!Ordered, Cpu!MinFirst, Cpu!MaxFirst

(* A request takes up the way to the profile that was asked for. *)
LEMMA RequestsLead ==
    ASSUME Cpu!CpuInv, NEW p \in Cpu!Ordered, NEW byScene \in BOOLEAN,
           byScene => p.min = x2.min /\ p.max <= x2.max, Cpu!Request(p, byScene)
    PROVE  Cpu!CpuInv'
<1> DEFINE node == x1  lease == x2  previous == x3  target == x4  scene == x5  plan == x6
           at == x7  reply == x8
<1>1. CASE reply' = "refused" /\ UNCHANGED <<previous, target, scene, plan, at>>
  <2>1. Cpu!CpuTypes'
    BY <1>1 DEF Cpu!CpuInv, Cpu!Request, Cpu!CpuTypes
  <2>2. at' = "idle"
    BY <1>1 DEF Cpu!Request
  <2> QED
    BY <1>1, <2>1, <2>2 DEF Cpu!CpuInv, Cpu!AnswerTellsPolicy
<1>2. CASE /\ Cpu!Supported(p, byScene)
           /\ previous' = node /\ target' = p /\ scene' = byScene
           /\ plan' = Cpu!Order(p) /\ at' = "write" /\ reply' = "none"
  <2>1. Cpu!Leads(p)' /\ target' = p
    BY <1>2, OrderLeads DEF Cpu!CpuInv, Cpu!Request, Cpu!Ordered
  <2>2. Cpu!CpuTypes'
    <3>1. scene' \in BOOLEAN
      BY <1>2, Zenon
    <3>2. (scene => target.min = lease.min /\ target.max <= lease.max)'
      BY <1>2 DEF Cpu!Request
    <3>3. (/\ target \in Cpu!Ordered
           /\ at \in {"idle", "write", "restore", "rollback"}
           /\ at # "idle" => reply = "none")'
      BY <1>2 DEF Cpu!Supported, Cpu!Ordered
    <3>4. (lease \in Cpu!Ordered /\ previous \in Cpu!Ordered /\ node \in Cpu!Ordered)'
      BY <1>2 DEF Cpu!CpuInv, Cpu!CpuTypes, Cpu!Request
    <3> QED
      BY <3>1, <3>2, <3>3, <3>4 DEF Cpu!CpuTypes
  <2>3. Cpu!Leads(target)'
    BY <2>1 DEF Cpu!Leads, Cpu!MinFirst, Cpu!MaxFirst
  <2> QED
    BY <1>2, <2>2, <2>3 DEF Cpu!CpuInv, Cpu!AnswerTellsPolicy
<1> QED
  BY <1>1, <1>2 DEF Cpu!Request

(* One write of the way leaves the rest of it, and the kernel takes it. *)
LEMMA WriteLeads ==
    ASSUME x1 \in Cpu!Ordered, NEW p \in Cpu!Ordered, Cpu!Leads(p), x6 # <<>>,
           NEW w, w = [x1 EXCEPT ![Head(x6)[1]] = Head(x6)[2]]
    PROVE  /\ w \in Cpu!Ordered
           /\ x1' = w /\ x6' = Tail(x6) => Cpu!Leads(p)'
<1> DEFINE node == x1  plan == x6
<1>1. PICK g \in Governors, a \in Nat, b \in Nat :
        a <= b /\ node = [gov |-> g, min |-> a, max |-> b]
  BY DEF Cpu!Ordered
<1>2. PICK h \in Governors, i \in Nat, j \in Nat :
        i <= j /\ p = [gov |-> h, min |-> i, max |-> j]
  BY DEF Cpu!Ordered
<1>3. \A k \in Governors, l, m \in Nat :
        l <= m => [gov |-> k, min |-> l, max |-> m] \in Cpu!Ordered
  BY DEF Cpu!Ordered
<1>4. node.min = a /\ node.max = b /\ p.gov = h /\ p.min = i /\ p.max = j
  BY <1>1, <1>2
<1>5. CASE plan = Cpu!MinFirst(p) /\ p.max < node.min
  <2>1. w = [node EXCEPT !.min = p.min] /\ Tail(plan) = <<<<"max", p.max>>, <<"gov", p.gov>>>>
    <3>1. Head(plan) = <<"min", p.min>>
      BY <1>5 DEF Cpu!MinFirst
    <3>2. Tail(plan) = <<<<"max", p.max>>, <<"gov", p.gov>>>>
      BY <1>5 DEF Cpu!MinFirst
    <3>3. Head(plan)[1] = "min" /\ Head(plan)[2] = p.min
      BY <3>1
    <3> QED
      BY <3>2, <3>3
  <2>2. w = [gov |-> g, min |-> i, max |-> b]
    BY <2>1, <1>1, <1>4
  <2>3. i <= b
    BY <1>5, <1>1, <1>2, <1>4
  <2>4. w \in Cpu!Ordered /\ w.min = p.min
    BY <2>2, <2>3, <1>1, <1>2, <1>3, <1>4
  <2> QED
    BY <2>1, <2>4 DEF Cpu!Leads
<1>6. CASE plan = Cpu!MaxFirst(p) /\ node.min <= p.max
  <2>1. w = [node EXCEPT !.max = p.max] /\ Tail(plan) = <<<<"min", p.min>>, <<"gov", p.gov>>>>
    <3>1. Head(plan) = <<"max", p.max>>
      BY <1>6 DEF Cpu!MaxFirst
    <3>2. Tail(plan) = <<<<"min", p.min>>, <<"gov", p.gov>>>>
      BY <1>6 DEF Cpu!MaxFirst
    <3>3. Head(plan)[1] = "max" /\ Head(plan)[2] = p.max
      BY <3>1
    <3> QED
      BY <3>2, <3>3
  <2>2. w = [gov |-> g, min |-> a, max |-> j]
    BY <2>1, <1>1, <1>4
  <2>3. a <= j
    BY <1>6, <1>1, <1>2, <1>4
  <2>4. w \in Cpu!Ordered /\ w.max = p.max
    BY <2>2, <2>3, <1>1, <1>2, <1>3, <1>4
  <2> QED
    BY <2>1, <2>4 DEF Cpu!Leads
<1>7. CASE plan = <<<<"max", p.max>>, <<"gov", p.gov>>>> /\ node.min = p.min
  <2>1. w = [node EXCEPT !.max = p.max] /\ Tail(plan) = <<<<"gov", p.gov>>>>
    <3>1. Head(plan) = <<"max", p.max>>
      BY <1>7
    <3>2. Tail(plan) = <<<<"gov", p.gov>>>>
      BY <1>7
    <3>3. Head(plan)[1] = "max" /\ Head(plan)[2] = p.max
      BY <3>1
    <3> QED
      BY <3>2, <3>3
  <2>2. w = [gov |-> g, min |-> a, max |-> j]
    BY <2>1, <1>1, <1>4
  <2>3. a = i
    BY <1>7, <1>1, <1>2, <1>4
  <2>4. w \in Cpu!Ordered /\ w.min = p.min /\ w.max = p.max
    BY <2>2, <2>3, <1>1, <1>2, <1>3, <1>4
  <2> QED
    BY <2>1, <2>4 DEF Cpu!Leads
<1>8. CASE plan = <<<<"min", p.min>>, <<"gov", p.gov>>>> /\ node.max = p.max
  <2>1. w = [node EXCEPT !.min = p.min] /\ Tail(plan) = <<<<"gov", p.gov>>>>
    <3>1. Head(plan) = <<"min", p.min>>
      BY <1>8
    <3>2. Tail(plan) = <<<<"gov", p.gov>>>>
      BY <1>8
    <3>3. Head(plan)[1] = "min" /\ Head(plan)[2] = p.min
      BY <3>1
    <3> QED
      BY <3>2, <3>3
  <2>2. w = [gov |-> g, min |-> i, max |-> b]
    BY <2>1, <1>1, <1>4
  <2>3. b = j
    BY <1>8, <1>1, <1>2, <1>4
  <2>4. w \in Cpu!Ordered /\ w.min = p.min /\ w.max = p.max
    BY <2>2, <2>3, <1>1, <1>2, <1>3, <1>4
  <2> QED
    BY <2>1, <2>4 DEF Cpu!Leads
<1>9. CASE plan = <<<<"gov", p.gov>>>> /\ node.min = p.min /\ node.max = p.max
  <2>1. w = [node EXCEPT !.gov = p.gov] /\ Tail(plan) = <<>>
    <3>1. Head(plan) = <<"gov", p.gov>>
      BY <1>9
    <3>2. Tail(plan) = <<>>
      BY <1>9
    <3>3. Head(plan)[1] = "gov" /\ Head(plan)[2] = p.gov
      BY <3>1
    <3> QED
      BY <3>2, <3>3
  <2>2. w = [gov |-> h, min |-> a, max |-> b]
    BY <2>1, <1>1, <1>4
  <2>3. a = i /\ b = j
    BY <1>9, <1>1, <1>2, <1>4
  <2>4. w \in Cpu!Ordered /\ w = p
    BY <2>2, <2>3, <1>1, <1>2, <1>3, <1>4
  <2> QED
    BY <2>1, <2>4 DEF Cpu!Leads
<1> QED
  BY <1>5, <1>6, <1>7, <1>8, <1>9 DEF Cpu!Leads

LEMMA WriteKeeps ==
    ASSUME Cpu!CpuInv, Cpu!Write
    PROVE  Cpu!CpuInv'
<1> DEFINE node == x1  previous == x3  target == x4  plan == x6  at == x7  reply == x8
<1> DEFINE w == [node EXCEPT ![Head(plan)[1]] = Head(plan)[2]]
<1>1. PICK p \in Cpu!Ordered :
        /\ Cpu!Leads(p)
        /\ at = "write" => p = target
        /\ at = "rollback" => p = previous
  BY DEF Cpu!Write, Cpu!CpuInv, Cpu!CpuTypes
<1>2. node' = w /\ plan' = Tail(plan) /\ plan # <<>>
  BY DEF Cpu!Write
<1> HIDE DEF w
<1>3. node' \in Cpu!Ordered /\ Cpu!Leads(p)'
  <2>1. w \in Cpu!Ordered /\ (node' = w /\ plan' = Tail(plan) => Cpu!Leads(p)')
    BY <1>1, <1>2, WriteLeads DEF Cpu!CpuInv, Cpu!CpuTypes, w
  <2> QED
    BY <1>2, <2>1
<1>4. Cpu!CpuTypes' /\ reply' = "none"
  BY <1>3 DEF Cpu!Write, Cpu!CpuInv, Cpu!CpuTypes
<1>5. at' = "write" => Cpu!Leads(target)'
  BY <1>1, <1>3 DEF Cpu!Write, Cpu!Leads, Cpu!MinFirst, Cpu!MaxFirst
<1>6. at' = "rollback" => Cpu!Leads(previous)'
  BY <1>1, <1>3 DEF Cpu!Write, Cpu!Leads, Cpu!MinFirst, Cpu!MaxFirst
<1> QED
  BY <1>4, <1>5, <1>6 DEF Cpu!CpuInv, Cpu!AnswerTellsPolicy

LEMMA WriteIsAccepted ==
    ASSUME Cpu!CpuInv, x7 \in {"write", "rollback"}, x6 # <<>>
    PROVE  [x1 EXCEPT ![Head(x6)[1]] = Head(x6)[2]] \in Cpu!Ordered
<1> DEFINE node == x1  plan == x6
<1> DEFINE w == [node EXCEPT ![Head(plan)[1]] = Head(plan)[2]]
<1>1. PICK p \in Cpu!Ordered : Cpu!Leads(p)
  BY DEF Cpu!CpuInv, Cpu!CpuTypes
<1>2. node \in Cpu!Ordered
  BY DEF Cpu!CpuInv, Cpu!CpuTypes
<1> QED
  BY <1>1, <1>2, WriteLeads

LEMMA WriteFailsKeeps ==
    ASSUME Cpu!CpuInv, Cpu!WriteFails
    PROVE  Cpu!CpuInv'
<1> DEFINE node == x1  at == x7  reply == x8
<1>1. node' \in Cpu!Ordered
  BY WriteIsAccepted DEF Cpu!WriteFails, Cpu!CpuInv, Cpu!CpuTypes
<1>2. at' \in {"restore", "idle"} /\ reply' \in {"none", "rollback_failed"}
  BY DEF Cpu!WriteFails
<1>3. Cpu!CpuTypes'
  BY <1>1 DEF Cpu!WriteFails, Cpu!CpuInv, Cpu!CpuTypes
<1> QED
  BY <1>2, <1>3 DEF Cpu!CpuInv, Cpu!AnswerTellsPolicy

LEMMA CpuInductive ==
    ASSUME Cpu!CpuInv, [Cpu!CpuNext]_(Cpu!cpuVars)
    PROVE  Cpu!CpuInv'
<1> DEFINE node == x1  lease == x2  previous == x3  target == x4  scene == x5  plan == x6
           at == x7  reply == x8
<1>1. CASE UNCHANGED Cpu!cpuVars
  BY <1>1 DEF Cpu!cpuVars, Cpu!CpuInv, Cpu!CpuTypes, Cpu!Leads, Cpu!AnswerTellsPolicy,
     Cpu!MinFirst, Cpu!MaxFirst
<1>2. CASE Cpu!RequestScene
  <2>1. PICK cap \in Caps : Cpu!Request(Cpu!SceneProfile(cap), TRUE)
    BY <1>2 DEF Cpu!RequestScene
  <2>2. CASE reply' = "refused" /\ UNCHANGED <<previous, target, scene, plan, at>>
    <3>1. Cpu!CpuTypes' /\ at' = "idle"
      BY <2>1, <2>2 DEF Cpu!CpuInv, Cpu!Request, Cpu!CpuTypes
    <3> QED
      BY <2>2, <3>1 DEF Cpu!CpuInv, Cpu!AnswerTellsPolicy
  <2>3. CASE Cpu!Supported(Cpu!SceneProfile(cap), TRUE)
    <3>1. /\ Cpu!SceneProfile(cap) \in Cpu!Ordered
          /\ Cpu!SceneProfile(cap).min = lease.min /\ Cpu!SceneProfile(cap).max <= lease.max
      BY <2>3, FrequenciesAssumption
         DEF Cpu!CpuInv, Cpu!CpuTypes, Cpu!Supported, Cpu!SceneProfile, Cpu!Ordered, Cpu!Least
    <3> QED
      BY <2>1, <3>1, RequestsLead
  <2> QED
    BY <2>1, <2>2, <2>3 DEF Cpu!Request
<1>3. CASE Cpu!RequestManual
  <2>1. PICK p \in Cpu!Profiles : Cpu!Request(p, FALSE) /\ p \in Cpu!Profiles
    BY <1>3 DEF Cpu!RequestManual
  <2>2. CASE p \in Cpu!Ordered
    BY <2>1, <2>2, RequestsLead
  <2>3. CASE reply' = "refused" /\ UNCHANGED <<previous, target, scene, plan, at>>
    <3>1. Cpu!CpuTypes' /\ at' = "idle"
      BY <2>1, <2>3 DEF Cpu!CpuInv, Cpu!Request, Cpu!CpuTypes
    <3> QED
      BY <2>3, <3>1 DEF Cpu!CpuInv, Cpu!AnswerTellsPolicy
  <2>4. CASE Cpu!Supported(p, FALSE)
    BY <2>1, <2>2, <2>4, FrequenciesAssumption DEF Cpu!Supported, Cpu!Ordered, Cpu!Profiles
  <2> QED
    BY <2>1, <2>3, <2>4 DEF Cpu!Request
<1>4. CASE Cpu!Restore
  <2>1. Cpu!Leads(previous)' /\ Cpu!CpuTypes'
    <3>1. previous.min \in Nat /\ previous.max \in Nat
      BY DEF Cpu!CpuInv, Cpu!CpuTypes, Cpu!Ordered
    <3>2. Cpu!Leads(previous)'
      <4>1. \A q \in {previous} : Cpu!Leads(q)'
        BY <1>4, <3>1, OrderLeads DEF Cpu!Restore, Cpu!CpuInv
      <4> QED
        BY <1>4, <4>1 DEF Cpu!Restore, Cpu!Leads, Cpu!MinFirst, Cpu!MaxFirst
    <3> QED
      BY <1>4, <3>2 DEF Cpu!Restore, Cpu!CpuInv, Cpu!CpuTypes
  <2> QED
    BY <1>4, <2>1 DEF Cpu!Restore, Cpu!CpuInv, Cpu!AnswerTellsPolicy, Cpu!CpuTypes
<1>5. CASE Cpu!Done
  <2>1. Cpu!CpuTypes' /\ at' = "idle"
    BY <1>5 DEF Cpu!Done, Cpu!CpuInv, Cpu!CpuTypes
  <2>2. /\ at = "write" => node = target
        /\ at = "rollback" => node = previous
    BY <1>5 DEF Cpu!Done, Cpu!CpuInv, Cpu!Leads, Cpu!MinFirst, Cpu!MaxFirst
  <2>3. Cpu!AnswerTellsPolicy'
    BY <1>5, <2>2 DEF Cpu!Done, Cpu!CpuInv, Cpu!CpuTypes, Cpu!AnswerTellsPolicy
  <2> QED
    BY <2>1, <2>3 DEF Cpu!CpuInv
<1> QED
  BY <1>1, <1>2, <1>3, <1>4, <1>5, WriteKeeps, WriteFailsKeeps DEF Cpu!CpuNext

LEMMA CpuBegins == Cpu!CpuInit => Cpu!CpuInv
  BY FrequenciesAssumption DEF Cpu!CpuInit, Cpu!CpuInv, Cpu!CpuTypes, Cpu!Ordered, Cpu!Legal,
     Cpu!Profiles, Cpu!AnswerTellsPolicy

LEMMA CpuAnswers == Cpu!CpuInv => Cpu!AnswerTellsPolicy /\ Cpu!OrderIsAccepted
<1> DEFINE plan == x6  at == x7
<1>1. ASSUME Cpu!CpuInv, at \in {"write", "rollback"}, plan # <<>>
      PROVE  ~Cpu!Rejected
  BY <1>1, WriteIsAccepted DEF Cpu!Rejected, Cpu!Ordered
<1> QED
  BY <1>1 DEF Cpu!CpuInv, Cpu!OrderIsAccepted

CpuPart == part = "cpu" => Cpu!CpuInv

(* However often scenes and sessions ask, and whichever writes fail or are refused: an *)
(* answer tells the policy that is in force, and neither a change nor its rollback     *)
(* ever asks the kernel for a minimum above the maximum (cpu-control.py).              *)
THEOREM ClockAnswersAreTrue == Spec => []ClockAnswerIsTrue
<1>1. Init => CpuPart
  BY CpuBegins DEF Init, CpuPart
<1>2. CpuPart /\ [Next]_mcVars => CpuPart'
  BY OwnSteps, CpuInductive DEF CpuPart
<1>3. CpuPart => ClockAnswerIsTrue
  BY CpuAnswers DEF CpuPart, ClockAnswerIsTrue
<1> QED
  BY <1>1, <1>2, <1>3, PTL DEF Spec

-----------------------------------------------------------------------------
(* The sessions of a port.  Whatever was done of a stop keeps the reason it was     *)
(* done for, and a child lives only under its supervisor.                           *)
(* The configuration, before the game. *)
LEMMA ConfigSteps ==
    ASSUME Session!SessionInv, NEW s \in Peers,
           Session!LookForConfig(s) \/ Session!BeginCopy(s) \/ Session!FinishCopy(s) \/
           Session!PublishConfig(s) \/ Session!StartGame(s)
             \/ Session!SaveSettings(s)
    PROVE  Session!SessionInv'
<1> DEFINE pc == x1  child == x4  by == x5  result == x12
<1>1. /\ UNCHANGED <<by, Session!Stop, result, Session!World>>
      /\ child' = child \/ (pc[s] = "start" /\ child' = [child EXCEPT ![s] = "runs"])
  BY DEF Session!LookForConfig, Session!BeginCopy, Session!FinishCopy, Session!PublishConfig,
     Session!StartGame, Session!SaveSettings, Session!Move,
         Session!Files, Session!Child, Session!Stop, Session!World
<1>2. Session!SessionTypes'
  BY <1>1 DEF Session!SessionInv, Session!SessionTypes, Session!PhaseIsTrue,
     Session!LookForConfig, Session!BeginCopy, Session!FinishCopy, Session!PublishConfig,
     Session!StartGame, Session!SaveSettings, Session!Move, Session!Files, Session!Child,
     Session!Stop, Session!World, Session!None
<1>3. Session!PhaseIsTrue' /\ Session!NoOrphan'
  BY <1>1 DEF Session!SessionInv, Session!SessionTypes, Session!PhaseIsTrue, Session!NoOrphan,
     Session!LookForConfig, Session!BeginCopy, Session!FinishCopy, Session!PublishConfig,
     Session!StartGame, Session!SaveSettings, Session!Move, Session!Files, Session!Child,
     Session!Stop, Session!World, Session!None
<1>4. Session!ReasonIsKept'
  BY <1>1 DEF Session!SessionInv, Session!SessionTypes, Session!PhaseIsTrue,
     Session!ReasonIsKept, Session!LookForConfig, Session!BeginCopy, Session!FinishCopy,
     Session!PublishConfig, Session!StartGame, Session!SaveSettings, Session!Move,
     Session!Files, Session!Child, Session!Stop, Session!World, Session!None
<1>5. Session!ResultIsTrue'
  BY <1>1 DEF Session!SessionInv, Session!SessionTypes, Session!PhaseIsTrue,
     Session!ResultIsTrue, Session!Stop, Session!None
<1> QED
  BY <1>2, <1>3, <1>4, <1>5 DEF Session!SessionInv

(* The supervisor and the game that it runs. *)
LEMMA StopSteps ==
    ASSUME Session!SessionInv, NEW s \in Peers,
           Session!RequestStop(s) \/ Session!AskChild(s) \/ Session!ForceChild(s) \/
           Session!ChildExits(s) \/ Session!SuperviseFails(s)
    PROVE  Session!SessionInv'
<1> DEFINE pc == x1  child == x4  by == x5  shared == x6  requested == x7  began == x8
           bounded == x9  forced == x11  result == x12
<1>1. /\ UNCHANGED <<Session!Files, shared, result, Session!World>>
      /\ pc[s] \notin {"look", "copy", "publish", "start"}
      /\ pc[s] # "supervise" => UNCHANGED <<pc, Session!Stop>> /\ Session!ChildExits(s)
  <2>1. UNCHANGED <<Session!Files, shared, result, Session!World>>
    BY Zenon DEF Session!RequestStop, Session!AskChild, Session!ForceChild, Session!ChildExits,
       Session!SuperviseFails, Session!World, Session!Files,
       Session!Child
  <2>2. pc[s] = "supervise" \/ Session!ChildExits(s)
    BY Zenon DEF Session!RequestStop, Session!AskChild, Session!ForceChild,
       Session!SuperviseFails, Session!Move
  <2>3. Session!ChildExits(s) => UNCHANGED <<pc, Session!Stop>>
    BY Zenon DEF Session!ChildExits
  <2>4. Session!ChildExits(s) => pc[s] \notin {"look", "copy", "publish", "start"}
    BY DEF Session!ChildExits, Session!SessionInv, Session!PhaseIsTrue, Session!None
  <2> QED
    BY <2>1, <2>2, <2>3, <2>4
<1>2. /\ pc' \in [Peers -> {"look", "copy", "publish", "start", "supervise", "done", "failed"}]
      /\ child' \in [Peers -> {Session!None, "runs", "ignores", "gone"}]
      /\ by' \in [Peers -> {Session!None, "itself", "term", "kill"}]
  <2>1. CASE Session!RequestStop(s) \/ Session!SuperviseFails(s)
    BY <2>1 DEF Session!SessionInv, Session!SessionTypes, Session!RequestStop,
       Session!SuperviseFails, Session!Move, Session!Ends, Session!Child
  <2>2. CASE Session!AskChild(s)
    BY <2>2 DEF Session!SessionInv, Session!SessionTypes, Session!AskChild, Session!Ends
  <2>3. CASE Session!ForceChild(s) \/ Session!ChildExits(s)
    BY <2>3 DEF Session!SessionInv, Session!SessionTypes, Session!ForceChild,
       Session!ChildExits, Session!Ends
  <2> QED
    BY <2>1, <2>2, <2>3
<1>3. /\ requested' \in [Peers -> BOOLEAN]
      /\ forced' \in [Peers -> BOOLEAN]
      /\ began' \in [Peers -> Nat \cup {Session!NoTime}]
  <2>1. CASE Session!RequestStop(s) \/ Session!ForceChild(s)
    BY <2>1 DEF Session!SessionInv, Session!SessionTypes, Session!RequestStop,
       Session!ForceChild
  <2>2. CASE Session!AskChild(s)
    BY <2>2 DEF Session!SessionInv, Session!SessionTypes, Session!AskChild
  <2>3. CASE Session!ChildExits(s) \/ Session!SuperviseFails(s)
    BY <2>3 DEF Session!SessionInv, Session!SessionTypes, Session!ChildExits,
       Session!SuperviseFails, Session!Stop
  <2> QED
    BY <2>1, <2>2, <2>3
<1>4. bounded' \in [Peers -> BOOLEAN]
  <2>1. Session!Late(s) \in BOOLEAN
    BY DEF Session!Late
  <2> QED
    BY <2>1, Zenon DEF Session!SessionInv, Session!SessionTypes, Session!RequestStop,
       Session!AskChild, Session!ForceChild, Session!ChildExits,
       Session!SuperviseFails, Session!Stop
<1>5. Session!SessionTypes'
  BY <1>1, <1>2, <1>3, <1>4 DEF Session!SessionInv, Session!SessionTypes, Session!Files,
     Session!World
<1>6. Session!PhaseIsTrue' /\ Session!NoOrphan'
  <2>1. CASE Session!RequestStop(s)
    BY <2>1, <1>1 DEF Session!SessionInv, Session!PhaseIsTrue, Session!NoOrphan,
       Session!RequestStop, Session!Files, Session!Child
  <2>2. CASE Session!SuperviseFails(s)
    BY <2>2, <1>1 DEF Session!SessionInv, Session!SessionTypes, Session!PhaseIsTrue,
       Session!NoOrphan, Session!SuperviseFails, Session!Move,
       Session!Ends, Session!Files, Session!None
  <2>3. CASE Session!AskChild(s) \/ Session!ForceChild(s) \/ Session!ChildExits(s)
    <3>1. pc' = pc /\ \A t \in Peers : t # s => child'[t] = child[t] /\ by'[t] = by[t]
      BY <2>3 DEF Session!AskChild, Session!ForceChild, Session!ChildExits, Session!Ends,
         Session!SessionInv, Session!SessionTypes
    <3>2. child'[s] \in {"ignores", "gone", child[s]}
      BY <2>3 DEF Session!AskChild, Session!ForceChild, Session!ChildExits, Session!Ends,
         Session!SessionInv, Session!SessionTypes
    <3>3. pc[s] # "supervise" => child'[s] = "gone"
      BY <2>3, <1>1 DEF Session!ChildExits, Session!Ends, Session!SessionInv,
         Session!SessionTypes
    <3> QED
      BY <1>1, <3>1, <3>2, <3>3 DEF Session!SessionInv, Session!PhaseIsTrue, Session!NoOrphan,
         Session!Files
  <2> QED
    BY <2>1, <2>2, <2>3
<1>7. Session!ReasonIsKept'
  <2>1. CASE Session!RequestStop(s)
    BY <2>1 DEF Session!SessionInv, Session!SessionTypes, Session!ReasonIsKept,
       Session!RequestStop, Session!Child
  <2>2. CASE Session!AskChild(s)
    <3>1. bounded'[s] \/ requested'[s]
      BY <2>2 DEF Session!AskChild, Session!SessionInv, Session!SessionTypes
    <3>2. forced' = forced /\ requested' = requested /\ pc' = pc
      BY <2>2 DEF Session!AskChild
    <3>3. \A t \in Peers : t # s => /\ child'[t] = child[t] /\ by'[t] = by[t]
                                    /\ began'[t] = began[t]
      BY <2>2 DEF Session!AskChild, Session!Ends, Session!SessionInv, Session!SessionTypes
    <3>4. \A t \in Peers : t # s => bounded'[t] = bounded[t]
      BY <2>2, Zenon DEF Session!AskChild, Session!SessionInv, Session!SessionTypes
    <3>5. pc[s] = "supervise" /\ by'[s] = "kill" => by[s] = "kill"
      BY <2>2 DEF Session!AskChild, Session!Ends, Session!SessionInv, Session!SessionTypes
    <3> QED
      BY <3>1, <3>2, <3>3, <3>4, <3>5 DEF Session!SessionInv, Session!ReasonIsKept
  <2>3. CASE Session!ForceChild(s)
    BY <2>3 DEF Session!SessionInv, Session!SessionTypes, Session!ReasonIsKept,
       Session!ForceChild, Session!Ends, Session!Overdue
  <2>4. CASE Session!ChildExits(s)
    BY <2>4 DEF Session!SessionInv, Session!SessionTypes, Session!ReasonIsKept,
       Session!ChildExits, Session!Ends, Session!Stop
  <2>5. CASE Session!SuperviseFails(s)
    BY <2>5 DEF Session!SessionInv, Session!SessionTypes, Session!ReasonIsKept,
       Session!SuperviseFails, Session!Move, Session!Ends, Session!Stop
  <2> QED
    BY <2>1, <2>2, <2>3, <2>4, <2>5
<1>8. Session!ResultIsTrue'
  <2>1. \A t \in Peers : t # s => child'[t] = child[t] /\ by'[t] = by[t]
    BY DEF Session!RequestStop, Session!AskChild, Session!ForceChild, Session!ChildExits,
       Session!SuperviseFails, Session!Ends, Session!Child,
       Session!SessionInv, Session!SessionTypes
  <2>2. result[s] = Session!NoResult
    BY <1>1 DEF Session!SessionInv, Session!PhaseIsTrue, Session!ChildExits, Session!NoOrphan,
       Session!None
  <2> QED
    BY <1>1, <2>1, <2>2 DEF Session!SessionInv, Session!ResultIsTrue
<1> QED
  BY <1>5, <1>6, <1>7, <1>8 DEF Session!SessionInv

LEMMA ResultStep ==
    ASSUME Session!SessionInv, NEW s \in Peers, Session!WriteResult(s)
    PROVE  Session!SessionInv'
<1> DEFINE pc == x1  child == x4  requested == x7  bounded == x9  forced == x11
           result == x12
<1> DEFINE r == [forced |-> forced[s], bounded |-> bounded[s], requested |-> requested[s]]
<1>1. /\ UNCHANGED <<Session!Files, Session!Child, Session!Stop,
              Session!World>> /\ child[s] = "gone"
      /\ pc[s] = "supervise" /\ pc' = [pc EXCEPT ![s] = "done"]
      /\ result' = [result EXCEPT ![s] = r]
  BY DEF Session!WriteResult, Session!Move
<1>2. r \in Session!Reasons
  BY DEF Session!SessionInv, Session!SessionTypes, Session!Reasons
<1>3. r.forced = forced[s] /\ r.bounded = bounded[s] /\ r.requested = requested[s]
  OBVIOUS
<1> HIDE DEF r
<1>4. Session!SessionTypes'
  BY <1>1, <1>2 DEF Session!SessionInv, Session!SessionTypes, Session!Files, Session!Child,
     Session!Stop, Session!World
<1>5. Session!PhaseIsTrue' /\ Session!NoOrphan'
  BY <1>1 DEF Session!SessionInv, Session!SessionTypes, Session!PhaseIsTrue, Session!NoOrphan,
     Session!Files, Session!Child, Session!None
<1>6. Session!ReasonIsKept'
  BY <1>1 DEF Session!SessionInv, Session!SessionTypes, Session!ReasonIsKept, Session!Child,
     Session!Stop
<1>7. Session!ResultIsTrue'
  BY <1>1, <1>3 DEF Session!SessionInv, Session!SessionTypes, Session!PhaseIsTrue,
     Session!ReasonIsKept, Session!ResultIsTrue, Session!Child, Session!Stop
<1> QED
  BY <1>4, <1>5, <1>6, <1>7 DEF Session!SessionInv

LEMMA SessionInductive ==
    ASSUME Session!SessionInv, [Session!SessionNext]_(Session!sessionVars)
    PROVE  Session!SessionInv'
<1>1. CASE UNCHANGED Session!sessionVars
  BY <1>1 DEF Session!sessionVars, Session!SessionInv, Session!SessionTypes,
     Session!PhaseIsTrue, Session!ReasonIsKept, Session!NoOrphan,
     Session!ResultIsTrue
<1>2. CASE Session!Tick
  BY <1>2 DEF Session!Tick, Session!Files, Session!Child, Session!Stop, Session!SessionInv,
     Session!SessionTypes, Session!PhaseIsTrue, Session!ReasonIsKept,
     Session!NoOrphan, Session!ResultIsTrue
<1>3. CASE Session!Crash
  <2>1. Session!SessionTypes'
    BY <1>3 DEF Session!Crash, Session!SessionInv, Session!SessionTypes, Session!None
  <2>2. Session!PhaseIsTrue' /\ Session!NoOrphan' /\ Session!ResultIsTrue'
    BY <1>3 DEF Session!Crash, Session!SessionInv, Session!SessionTypes, Session!PhaseIsTrue,
       Session!NoOrphan, Session!ResultIsTrue, Session!None
  <2>3. Session!ReasonIsKept'
    BY <1>3 DEF Session!Crash, Session!SessionInv, Session!SessionTypes, Session!ReasonIsKept,
       Session!None, Session!NoTime
  <2> QED
    BY <2>1, <2>2, <2>3 DEF Session!SessionInv
<1>4. ASSUME NEW s \in Peers, Session!SessionStep(s)
      PROVE  Session!SessionInv'
  BY <1>4, ConfigSteps, StopSteps, ResultStep DEF Session!SessionStep
<1> QED
  BY <1>1, <1>2, <1>3, <1>4 DEF Session!SessionNext

LEMMA SessionBegins == Session!SessionInit => Session!SessionInv
<1> SUFFICES ASSUME Session!SessionInit PROVE Session!SessionInv
  OBVIOUS
<1>1. Session!SessionTypes
  BY DEF Session!SessionInit, Session!SessionTypes, Session!None
<1>2. Session!PhaseIsTrue /\ Session!NoOrphan /\ Session!ResultIsTrue
  BY DEF Session!SessionInit, Session!PhaseIsTrue, Session!NoOrphan, Session!ResultIsTrue,
     Session!None
<1>3. Session!ReasonIsKept
  BY DEF Session!SessionInit, Session!ReasonIsKept, Session!None, Session!NoTime
<1> QED
  BY <1>1, <1>2, <1>3 DEF Session!SessionInv

LEMMA SettingsKept ==
    ASSUME Session!SessionInv, [Session!SessionNext]_(Session!sessionVars)
    PROVE  Session!SettingsStay
<1> DEFINE config == x3
<1>1. CASE UNCHANGED config
  BY <1>1 DEF Session!SettingsStay, Session!SessionInv, Session!SessionTypes, Session!None
<1>2. ASSUME NEW s \in Peers, Session!PublishConfig(s) \/ Session!SaveSettings(s)
      PROVE  Session!SettingsStay
  BY <1>2 DEF Session!SettingsStay, Session!SessionInv, Session!SessionTypes,
     Session!PhaseIsTrue, Session!PublishConfig, Session!SaveSettings,
     Session!Move, Session!None
<1> QED
  BY <1>1, <1>2 DEF Session!SessionNext, Session!SessionStep, Session!sessionVars, Session!Tick,
     Session!Crash, Session!Files, Session!LookForConfig, Session!BeginCopy, Session!FinishCopy,
     Session!StartGame, Session!RequestStop, Session!AskChild, Session!ForceChild,
     Session!ChildExits, Session!SuperviseFails, Session!WriteResult

SessionPart == part = "session" => Session!SessionInv

(* However the exit of the game, the limit, a stop and the grace period race, and   *)
(* whenever the power goes: a session that ended has no game, and its result hides  *)
(* no kill and names the reason of the stop (local_port.py).                        *)
THEOREM SessionsEndTrue == Spec => []SessionEndsTrue
<1>1. Init => SessionPart
  BY SessionBegins DEF Init, SessionPart
<1>2. SessionPart /\ [Next]_mcVars => SessionPart'
  BY OwnSteps, SessionInductive DEF SessionPart
<1>3. SessionPart => SessionEndsTrue
  BY DEF SessionPart, SessionEndsTrue, Session!SessionInv
<1> QED
  BY <1>1, <1>2, <1>3, PTL DEF Spec

-----------------------------------------------------------------------------
(* The display diagnostic.  Each thing that is changed is known, and still has to   *)
(* be put back, until it is back or named among what is lost.                       *)
LEMMA DiagTypesStep ==
    ASSUME Display!DiagInv, Display!DiagNext
    PROVE  Display!DiagTypes'
<1> DEFINE mode == x1  unit == x2  snapshots == x3  vt == x4  vtFirst == x5  vpg == x9
           pc == x18
<1> USE DEF Display!DiagInv, Display!DiagTypes, Display!Modes
<1>1. mode' = mode /\ vtFirst' = vtFirst
  BY DEF Display!DiagNext, Display!ValidateTarget, Display!CaptureDisplayUnits,
     Display!StopDisplayUnit, Display!EnterGraphicsVt, Display!FirstQuiescent,
     Display!Interrupted, Display!Snapshot, Display!WritePattern, Display!RestoreFramebuffer,
     Display!RestoreFramebufferFails, Display!EnableVpg, Display!RestoreVpg,
     Display!RestoreVpgFails, Display!Observe, Display!AfterTest, Display!RestoreVt,
     Display!RestoreDisplayUnits, Display!Report, Display!Elsewhere, Display!Terminal
<1>2. /\ snapshots' \in {snapshots, Display!Active}
      /\ unit' \in [Units -> {"active", "inactive"}]
  BY DEF Display!DiagNext, Display!ValidateTarget, Display!CaptureDisplayUnits,
     Display!StopDisplayUnit, Display!EnterGraphicsVt, Display!FirstQuiescent,
     Display!Interrupted, Display!Snapshot, Display!WritePattern, Display!RestoreFramebuffer,
     Display!RestoreFramebufferFails, Display!EnableVpg, Display!RestoreVpg,
     Display!RestoreVpgFails, Display!Observe, Display!AfterTest, Display!RestoreVt,
     Display!RestoreDisplayUnits, Display!Report, Display!Elsewhere, Display!Services,
     Display!Signal, Display!Intrude, Display!UnitReturns, Display!BatteryDrops,
     Display!KernelFault, Display!Active
<1>3. vt' \in {"text", "graphics"}
  BY DEF Display!DiagNext, Display!ValidateTarget, Display!CaptureDisplayUnits,
     Display!StopDisplayUnit, Display!EnterGraphicsVt, Display!FirstQuiescent,
     Display!Interrupted, Display!Snapshot, Display!WritePattern, Display!RestoreFramebuffer,
     Display!RestoreFramebufferFails, Display!EnableVpg, Display!RestoreVpg,
     Display!RestoreVpgFails, Display!Observe, Display!AfterTest, Display!RestoreVt,
     Display!RestoreDisplayUnits, Display!Report, Display!Elsewhere, Display!Terminal,
     Display!TerminalIsKnown
<1>4. /\ pc' \in {"snapshot", "write"} => mode = "pattern"
      /\ pc' = "enable" => mode = "vpg"
  BY DEF Display!DiagNext, Display!ValidateTarget, Display!CaptureDisplayUnits,
     Display!StopDisplayUnit, Display!EnterGraphicsVt, Display!FirstQuiescent,
     Display!Interrupted, Display!Snapshot, Display!WritePattern, Display!RestoreFramebuffer,
     Display!RestoreFramebufferFails, Display!EnableVpg, Display!RestoreVpg,
     Display!RestoreVpgFails, Display!Observe, Display!AfterTest, Display!RestoreVt,
     Display!RestoreDisplayUnits, Display!Report, Display!Elsewhere, Display!Fails
<1> QED
  BY <1>1, <1>2, <1>3, <1>4 DEF Display!Active

LEMMA TerminalStep ==
    ASSUME Display!DiagInv, Display!DiagNext
    PROVE  Display!TerminalIsKnown'
<1> USE DEF Display!DiagInv, Display!DiagTypes, Display!TerminalIsKnown
<1>1. CASE Display!EnterGraphicsVt
  BY <1>1 DEF Display!EnterGraphicsVt, Display!Fails, Display!Terminal
<1>2. CASE Display!RestoreVt
  BY <1>2 DEF Display!RestoreVt
<1>3. CASE UNCHANGED Display!Terminal
  <2>1. CASE Display!ValidateTarget \/ Display!CaptureDisplayUnits \/ Display!StopDisplayUnit \/
  Display!EnterGraphicsVt
    BY <1>1, <1>3, <2>1 DEF Display!Terminal, Display!ValidateTarget,
       Display!CaptureDisplayUnits, Display!StopDisplayUnit,
       Display!Fails, Display!Outcome
  <2>2. CASE Display!FirstQuiescent \/ Display!Interrupted \/ Display!Snapshot \/
  Display!WritePattern
    BY <1>3, <2>2 DEF Display!Terminal, Display!FirstQuiescent, Display!Interrupted,
       Display!Snapshot, Display!WritePattern, Display!Fails, Display!Modes,
       Display!Outcome
  <2>3. CASE Display!RestoreFramebuffer \/ Display!RestoreFramebufferFails \/
  Display!EnableVpg \/ Display!RestoreVpg
    BY <1>3, <2>3 DEF Display!Terminal, Display!RestoreFramebuffer,
       Display!RestoreFramebufferFails, Display!EnableVpg,
       Display!RestoreVpg, Display!Fails, Display!Outcome
  <2>4. CASE Display!RestoreVpgFails \/ Display!Observe \/ Display!AfterTest \/ Display!RestoreVt
    BY <1>2, <1>3, <2>4 DEF Display!Terminal, Display!RestoreVpgFails, Display!Observe,
       Display!AfterTest, Display!Outcome
  <2>5. CASE Display!RestoreDisplayUnits \/ Display!Report \/ Display!Elsewhere
    BY <1>3, <2>5 DEF Display!Terminal, Display!RestoreDisplayUnits, Display!Report,
       Display!Elsewhere, Display!Outcome
  <2> QED
    BY <2>1, <2>2, <2>3, <2>4, <2>5 DEF Display!DiagNext
<1> QED
  BY <1>1, <1>2, <1>3, Zenon DEF Display!DiagNext, Display!ValidateTarget,
     Display!CaptureDisplayUnits, Display!StopDisplayUnit, Display!FirstQuiescent,
     Display!Interrupted, Display!Snapshot, Display!WritePattern, Display!RestoreFramebuffer,
     Display!RestoreFramebufferFails, Display!EnableVpg, Display!RestoreVpg,
     Display!RestoreVpgFails, Display!Observe, Display!AfterTest, Display!RestoreDisplayUnits,
     Display!Report, Display!Elsewhere

LEMMA FrameStep ==
    ASSUME Display!DiagInv, Display!DiagNext
    PROVE  Display!FrameIsDue'
<1> DEFINE fb == x7
<1> USE DEF Display!DiagInv, Display!DiagTypes, Display!FrameIsDue
<1>1. fb' \in {fb, "foreign", "original"} \/ Display!WritePattern
  BY DEF Display!DiagNext, Display!ValidateTarget, Display!CaptureDisplayUnits,
     Display!StopDisplayUnit, Display!EnterGraphicsVt, Display!FirstQuiescent,
     Display!Interrupted, Display!Snapshot, Display!RestoreFramebuffer,
     Display!RestoreFramebufferFails, Display!EnableVpg, Display!RestoreVpg,
     Display!RestoreVpgFails, Display!Observe, Display!AfterTest, Display!RestoreVt,
     Display!RestoreDisplayUnits, Display!Report, Display!Elsewhere, Display!Frame,
     Display!Signal, Display!Intrude, Display!UnitReturns, Display!BatteryDrops,
     Display!KernelFault
<1>2. CASE Display!WritePattern
  BY <1>2 DEF Display!WritePattern, Display!Fails
<1>3. CASE ~Display!WritePattern
  BY <1>1, <1>3 DEF Display!DiagNext, Display!ValidateTarget, Display!CaptureDisplayUnits,
     Display!StopDisplayUnit, Display!EnterGraphicsVt, Display!FirstQuiescent,
     Display!Interrupted, Display!Snapshot, Display!RestoreFramebuffer,
     Display!RestoreFramebufferFails, Display!EnableVpg, Display!RestoreVpg,
     Display!RestoreVpgFails, Display!Observe, Display!AfterTest, Display!RestoreVt,
     Display!RestoreDisplayUnits, Display!Report, Display!Elsewhere, Display!Frame,
     Display!Outcome, Display!Fails
<1> QED
  BY <1>2, <1>3

LEMMA GeneratorStep ==
    ASSUME Display!DiagInv, Display!DiagNext
    PROVE  Display!GeneratorIsDue'
<1> DEFINE mode == x1  vpg == x9
<1> USE DEF Display!DiagInv, Display!DiagTypes, Display!GeneratorIsDue
<1>1. CASE Display!EnableVpg
  BY <1>1 DEF Display!EnableVpg, Display!Fails
<1>2. CASE Display!RestoreVpg
  BY <1>2 DEF Display!RestoreVpg
<1>3. CASE Display!RestoreVpgFails
  BY <1>3 DEF Display!RestoreVpgFails
<1>4. CASE ~Display!EnableVpg /\ ~Display!RestoreVpg /\ ~Display!RestoreVpgFails
  <2>1. vpg' = vpg /\ mode' = mode
    BY <1>4, Zenon DEF Display!Generator, Display!DiagNext, Display!ValidateTarget,
       Display!CaptureDisplayUnits, Display!StopDisplayUnit, Display!EnterGraphicsVt,
       Display!FirstQuiescent, Display!Interrupted, Display!Snapshot, Display!WritePattern,
       Display!RestoreFramebuffer, Display!RestoreFramebufferFails, Display!Observe,
       Display!AfterTest, Display!RestoreVt, Display!RestoreDisplayUnits, Display!Report,
       Display!Elsewhere
  <2> QED
    BY <1>4, <2>1 DEF Display!Generator, Display!DiagNext, Display!ValidateTarget,
       Display!CaptureDisplayUnits, Display!StopDisplayUnit, Display!EnterGraphicsVt,
       Display!FirstQuiescent, Display!Interrupted, Display!Snapshot, Display!WritePattern,
       Display!RestoreFramebuffer, Display!RestoreFramebufferFails, Display!Observe,
       Display!AfterTest, Display!RestoreVt, Display!RestoreDisplayUnits, Display!Report,
       Display!Elsewhere, Display!Fails, Display!Outcome
<1> QED
  BY <1>1, <1>2, <1>3, <1>4

LEMMA UnitsStep ==
    ASSUME Display!DiagInv, Display!DiagNext
    PROVE  Display!UnitsAreBack'
<1> USE DEF Display!DiagInv, Display!DiagTypes, Display!UnitsAreBack, Display!Active
<1>1. CASE Display!RestoreDisplayUnits
  BY <1>1 DEF Display!RestoreDisplayUnits, Display!Terminal
<1>2. CASE Display!Elsewhere
  BY <1>2 DEF Display!Elsewhere, Display!Outcome, Display!Signal, Display!Intrude,
     Display!UnitReturns, Display!BatteryDrops, Display!KernelFault
<1>3. CASE Display!ValidateTarget \/ Display!CaptureDisplayUnits \/ Display!StopDisplayUnit \/
           Display!Report
  BY <1>3 DEF Display!ValidateTarget, Display!CaptureDisplayUnits, Display!StopDisplayUnit,
     Display!Report, Display!Services, Display!Fails,
     Display!TerminalIsKnown
<1>4. CASE Display!EnterGraphicsVt \/ Display!FirstQuiescent \/ Display!Interrupted \/
           Display!Snapshot \/ Display!WritePattern
  BY <1>4 DEF Display!EnterGraphicsVt, Display!FirstQuiescent, Display!Interrupted,
     Display!Snapshot, Display!WritePattern, Display!Services,
     Display!Fails, Display!Modes
<1>5. CASE \/ Display!RestoreFramebuffer \/ Display!RestoreFramebufferFails
           \/ Display!EnableVpg \/ Display!RestoreVpg
           \/ Display!RestoreVpgFails \/ Display!Observe \/ Display!AfterTest \/ Display!RestoreVt
  BY <1>5 DEF Display!RestoreFramebuffer, Display!RestoreFramebufferFails, Display!EnableVpg,
     Display!RestoreVpg, Display!RestoreVpgFails, Display!Observe, Display!AfterTest,
     Display!RestoreVt, Display!Services, Display!Fails
<1> QED
  BY <1>1, <1>2, <1>3, <1>4, <1>5 DEF Display!DiagNext

LEMMA PassStep ==
    ASSUME Display!DiagInv, Display!DiagNext
    PROVE  Display!PassIsLast'
<1> DEFINE signalled == x14  failed == x15  lost == x16  pc == x18  passed == x19
<1> USE DEF Display!DiagInv, Display!PassIsLast
<1>1. CASE Display!Report
  <2>1. passed' => ~failed /\ ~signalled /\ lost = {}
    BY <1>1, Zenon DEF Display!Report
  <2> QED
    BY <1>1, <2>1 DEF Display!Report
<1>2. CASE ~Display!Report
  <2>1. passed' = passed
    BY <1>2, Zenon DEF Display!DiagNext, Display!ValidateTarget, Display!CaptureDisplayUnits,
       Display!StopDisplayUnit, Display!EnterGraphicsVt, Display!FirstQuiescent,
       Display!Interrupted, Display!Snapshot, Display!WritePattern, Display!RestoreFramebuffer,
       Display!RestoreFramebufferFails, Display!EnableVpg, Display!RestoreVpg,
       Display!RestoreVpgFails, Display!Observe, Display!AfterTest, Display!RestoreVt,
       Display!RestoreDisplayUnits, Display!Elsewhere, Display!Outcome
  <2>2. pc # "end"
    BY <1>2 DEF Display!DiagNext, Display!ValidateTarget, Display!CaptureDisplayUnits,
       Display!StopDisplayUnit, Display!EnterGraphicsVt, Display!FirstQuiescent,
       Display!Interrupted, Display!Snapshot, Display!WritePattern, Display!RestoreFramebuffer,
       Display!RestoreFramebufferFails, Display!EnableVpg, Display!RestoreVpg,
       Display!RestoreVpgFails, Display!Observe, Display!AfterTest, Display!RestoreVt,
       Display!RestoreDisplayUnits, Display!Elsewhere, Display!Fails
  <2> QED
    BY <2>1, <2>2
<1> QED
  BY <1>1, <1>2

LEMMA DiagInductive ==
    ASSUME Display!DiagInv, [Display!DiagNext]_(Display!diagVars)
    PROVE  Display!DiagInv'
<1>1. CASE Display!DiagNext
  BY <1>1, DiagTypesStep, TerminalStep, FrameStep, GeneratorStep, UnitsStep, PassStep
     DEF Display!DiagInv
<1>2. CASE UNCHANGED Display!diagVars
  BY <1>2 DEF Display!diagVars, Display!Services, Display!Terminal, Display!Frame,
     Display!Generator, Display!Outcome, Display!DiagInv, Display!DiagTypes,
     Display!TerminalIsKnown, Display!FrameIsDue, Display!GeneratorIsDue, Display!UnitsAreBack,
     Display!PassIsLast, Display!Active
<1> QED
  BY <1>1, <1>2

LEMMA DiagBegins == Display!DiagInit => Display!DiagInv
  BY DEF Display!DiagInit, Display!Modes, Display!DiagInv, Display!DiagTypes,
     Display!TerminalIsKnown, Display!FrameIsDue, Display!GeneratorIsDue,
     Display!UnitsAreBack, Display!PassIsLast

LEMMA DiagEnds == Display!DiagInv => Display!LeavesAsFound
  BY DEF Display!DiagInv, Display!TerminalIsKnown, Display!FrameIsDue, Display!GeneratorIsDue,
     Display!UnitsAreBack, Display!PassIsLast,
     Display!LeavesAsFound

DisplayPart == part = "display" => Display!DiagInv

(* Whatever fails, intrudes or signals, and whenever: at its end the diagnostic has *)
(* put terminal, framebuffer, generator and services back, or says what it could    *)
(* not put back and does not pass (r46h-display-diagnostic.py).                     *)
THEOREM DisplayIsLeftAsFound == Spec => []LeavesAsFound
<1>1. Init => DisplayPart
  BY DiagBegins DEF Init, DisplayPart
<1>2. DisplayPart /\ [Next]_mcVars => DisplayPart'
  BY OwnSteps, DiagInductive DEF DisplayPart
<1>3. DisplayPart => LeavesAsFound
  BY DiagEnds DEF DisplayPart, LeavesAsFound
<1> QED
  BY <1>1, <1>2, <1>3, PTL DEF Spec

-----------------------------------------------------------------------------
(* The gestures of the pad.  A press that was not given yet is held back by the     *)
(* modifier or the chord and still down, so that its release gives it.              *)
LEMMA BothAreGiven ==
    ASSUME NEW S, NEW s \in Seq(S), NEW t \in Seq(S)
    PROVE  Policy!Given(s) \subseteq Policy!Given(s \o t) /\
           Policy!Given(t) \subseteq Policy!Given(s \o t)
<1>1. /\ s \o t \in Seq(S) /\ Len(s \o t) = Len(s) + Len(t)
      /\ \A i \in 1 .. Len(s) + Len(t) :
            (s \o t)[i] = IF i <= Len(s) THEN s[i] ELSE t[i - Len(s)]
  BY ConcatProperties
<1>2. Len(s) \in Nat /\ Len(t) \in Nat
  OBVIOUS
<1>3. DOMAIN (s \o t) = 1 .. Len(s) + Len(t) /\ DOMAIN s = 1 .. Len(s) /\ DOMAIN t = 1 .. Len(t)
  BY <1>1
<1>4. ASSUME NEW i \in DOMAIN s
      PROVE  s[i] \in {(s \o t)[j] : j \in DOMAIN (s \o t)}
  <2>1. i \in 1 .. Len(s) + Len(t) /\ (s \o t)[i] = s[i]
    BY <1>1, <1>2, <1>3, <1>4
  <2> QED
    BY <1>3, <2>1
<1>5. ASSUME NEW i \in DOMAIN t
      PROVE  t[i] \in {(s \o t)[j] : j \in DOMAIN (s \o t)}
  <2>1. i + Len(s) \in 1 .. Len(s) + Len(t) /\ (s \o t)[i + Len(s)] = t[i]
    BY <1>1, <1>2, <1>3, <1>5
  <2> QED
    BY <1>3, <2>1
<1> QED
  BY <1>4, <1>5 DEF Policy!Given

(* What an update delivers holds the press of a short click and of a lone Select, *)
(* and everything that is not held back.                                          *)
LEMMA EmissionsGive ==
    ASSUME NEW k
    PROVE  /\ Policy!Output(k) \subseteq Policy!Given(Policy!Emissions(k))
           /\ Policy!Standalone(k) => "select" \in Policy!Given(Policy!Emissions(k))
           /\ Policy!ShortClick(k) =>
              Policy!Pending(k) \subseteq Policy!Given(Policy!Emissions(k))
<1> DEFINE first == IF Policy!Standalone(k) THEN <<Policy!Unmodified(k) \cup {"select"}>>
                    ELSE <<>>
           second == IF Policy!ShortClick(k) THEN <<Policy!ClickPulse(k)>> ELSE <<>>
           third == <<Policy!Output(k)>>
           S == {Policy!Unmodified(k) \cup {"select"}, Policy!ClickPulse(k), Policy!Output(k)}
<1>1. first \in Seq(S) /\ second \in Seq(S) /\ third \in Seq(S)
  <2>1. \A x \in S : <<x>> \in Seq(S)
    OBVIOUS
  <2>2. <<>> \in Seq(S)
    OBVIOUS
  <2> QED
    BY <2>1, <2>2
<1>2. Policy!Output(k) \subseteq Policy!Given(third)
  BY DEF Policy!Given
<1>3. Policy!ShortClick(k) => Policy!Pending(k) \subseteq Policy!Given(second)
  <2>1. Policy!ShortClick(k) => second = <<Policy!ClickPulse(k)>>
    OBVIOUS
  <2>2. Policy!Pending(k) \subseteq Policy!Given(<<Policy!ClickPulse(k)>>)
    BY DEF Policy!Given, Policy!ClickPulse
  <2> QED
    BY <2>1, <2>2
<1>4. Policy!Standalone(k) => "select" \in Policy!Given(first)
  <2>1. Policy!Standalone(k) => first = <<Policy!Unmodified(k) \cup {"select"}>>
    OBVIOUS
  <2>2. "select" \in Policy!Given(<<Policy!Unmodified(k) \cup {"select"}>>)
    BY DEF Policy!Given
  <2> QED
    BY <2>1, <2>2
<1>5. Policy!Emissions(k) = first \o second \o third
  BY DEF Policy!Emissions, Policy!SelectPulse
<1> HIDE DEF first, second, third, S
<1>6. first \o second \in Seq(S)
  BY <1>1, ConcatProperties
<1>7. Policy!Given(first) \subseteq Policy!Given(first \o second) /\
      Policy!Given(second) \subseteq Policy!Given(first \o second)
  BY <1>1, BothAreGiven
<1>8. /\ Policy!Given(first \o second) \subseteq Policy!Given((first \o second) \o third)
      /\ Policy!Given(third) \subseteq Policy!Given((first \o second) \o third)
  BY <1>1, <1>6, BothAreGiven
<1> QED
  BY <1>2, <1>3, <1>4, <1>5, <1>7, <1>8

(* With delivery open nothing was answered yet. *)
LEMMA OpenDelivery ==
    ASSUME Policy!PolicyInv, NEW k \in SUBSET Controls, ~Policy!Withheld(k)
    PROVE  /\ ~x3 /\ (x2 => k = {}) /\ ~x11 /\ ~Policy!Spent
           /\ x4 \subseteq Policy!Chord /\ x4 # Policy!Chord
           /\ Policy!Pending(k) \subseteq Policy!Chord /\ Policy!ClickAge(k) \in Nat /\
              Policy!StartAge(k) \in Nat
  BY DEF Policy!Withheld, Policy!PolicyInv, Policy!PolicyTypes, Policy!NothingBefore,
     Policy!Spent, Policy!Pending, Policy!ClickAge, Policy!StartAge,
     Policy!Clicks

LEMMA ChordHolds ==
    ASSUME Policy!PolicyInv, NEW k \in SUBSET Controls, ~Policy!Withheld(k), ~Policy!ChordMade(k)
    PROVE  /\ Policy!Deciding(k) => Policy!Pending(k) # Policy!Chord
           /\ Policy!Deciding(k) /\ ~Policy!Decided(k) =>
              Policy!Clicks(k) \subseteq Policy!Pending(k)
           /\ Policy!Deciding(k) /\ ~Policy!Decided(k) => Policy!Pending(k) \subseteq k
           /\ ~Policy!Deciding(k) /\ ~x6 => Policy!Clicks(k) = {} /\ x4 = {}
<1> DEFINE pending == x4  chordSpent == x6
<1>1. /\ pending \subseteq Policy!Chord /\ pending # Policy!Chord /\ Policy!ClickAge(k) \in Nat
      /\ Policy!Pending(k) \subseteq Policy!Chord
  BY OpenDelivery
<1>2. Policy!FirstClick(k) => Policy!ClickAge(k) = 0 /\ Policy!Pending(k) = Policy!Clicks(k)
  BY DEF Policy!ClickAge, Policy!Pending
<1>3. Policy!Deciding(k) /\ Policy!Clicks(k) = Policy!Chord => Policy!ClickAge(k) > ChordMs
  BY <1>1, DelaysAssumption DEF Policy!ChordMade
<1>4. Policy!Deciding(k) => Policy!Pending(k) # Policy!Chord
  BY <1>1, <1>2, <1>3, DelaysAssumption DEF Policy!Deciding, Policy!Pending, Policy!FirstClick
<1>5. ASSUME Policy!Deciding(k), ~Policy!Decided(k)
      PROVE  Policy!Clicks(k) \subseteq Policy!Pending(k) /\ Policy!Pending(k) \subseteq k
  <2>1. Policy!ClickAge(k) < ChordMs /\ Policy!Clicks(k) \cap Policy!Pending(k) # {}
    BY <1>1, <1>5, DelaysAssumption DEF Policy!Decided, Policy!ShortClick
  <2>2. Policy!Clicks(k) # Policy!Chord
    BY <1>1, <1>3, <1>5, <2>1, DelaysAssumption
  <2>3. \E c \in Policy!Chord : Policy!Clicks(k) = {c} /\ Policy!Pending(k) = {c}
    BY <1>1, <1>4, <1>5, <2>1, <2>2 DEF Policy!Chord, Policy!Clicks
  <2> QED
    BY <2>3 DEF Policy!Clicks
<1>6. ~Policy!Deciding(k) /\ ~chordSpent => Policy!Clicks(k) = {} /\ pending = {}
  BY DEF Policy!Deciding, Policy!Pending, Policy!FirstClick
<1> QED
  BY <1>4, <1>5, <1>6

(* An open update gives what was owed and is up again. *)
LEMMA DeliverGives ==
    ASSUME Policy!PolicyInv, NEW k \in SUBSET Controls, ~Policy!Withheld(k),
           Policy!Gesture(k) = "none",
           ~Policy!ChordMade(k), Policy!Deliver(k), x1' = k
    PROVE  Policy!HeldBack'
<1> DEFINE ownerPending == x3  pending == x4  chordSpent == x6  selecting == x8
           shortcut == x9  shortcutSpent == x11  owed == x14
<1>1. SUFFICES ASSUME NEW c \in owed'
               PROVE  /\ c \in k
                      /\ (c = "select" /\ selecting') \/ (c \in pending' /\ ~chordSpent')
  BY DEF Policy!HeldBack
<1>2. /\ c \in owed \/ c \in k
      /\ c \notin Policy!Given(Policy!Emissions(k))
      /\ "select" \in k /\ Policy!Shortcut(k) # "none" => c \notin Policy!Combine
      /\ pending' = IF Policy!Decided(k) THEN {} ELSE Policy!Pending(k)
      /\ "select" \in k => selecting'
      /\ chordSpent' => chordSpent \/ Policy!Decided(k)
  BY DEF Policy!Deliver
<1>3. /\ c \notin Policy!Output(k)
      /\ Policy!Standalone(k) => c # "select"
      /\ Policy!ShortClick(k) => c \notin Policy!Pending(k)
  BY <1>2, EmissionsGive
<1>4. ~shortcutSpent /\ ~Policy!Spent /\ ~ownerPending /\ pending \subseteq Policy!Chord
  BY OpenDelivery
<1>5. CASE c \in k
  <2>1. CASE c = "select"
    BY <1>2, <1>5, <2>1
  <2>2. CASE c # "select"
    <3>1. c \in Policy!Unmodified(k)
      BY <1>2, <1>5, <2>2 DEF Policy!Unmodified
    <3>2. Policy!Deciding(k) /\ ~Policy!Decided(k) /\ c \in Policy!Clicks(k)
      BY <1>3, <1>5, <3>1 DEF Policy!Output, Policy!Clicks
    <3>3. c \in Policy!Pending(k) /\ ~chordSpent
      BY <3>2, ChordHolds DEF Policy!Deciding
    <3> QED
      BY <1>2, <1>5, <3>2, <3>3
  <2> QED
    BY <2>1, <2>2
<1>6. CASE c \notin k
  <2>1. c \in owed
    BY <1>2, <1>6
  <2>2. CASE c = "select" /\ selecting
    <3>1. shortcut # "none"
      BY <1>3, <1>4, <1>6, <2>2 DEF Policy!Standalone
    <3>2. shortcut = "start"
      BY <1>4, <2>2, <3>1 DEF Policy!PolicyInv, Policy!AgesAreTrue
    <3>3. Policy!Shortcut(k) = "start" /\ ~Policy!Taken(k)
      BY <1>6, <2>2, <3>2 DEF Policy!Shortcut, Policy!Taken
    <3>4. Policy!Gesture(k) = "Home"
      BY <1>4, <1>6, <2>2, <3>3 DEF Policy!Gesture
    <3> QED
      BY <3>4
  <2>3. CASE c \in pending /\ ~chordSpent
    <3>1. ~Policy!FirstClick(k) /\ Policy!Pending(k) = pending /\ Policy!Deciding(k)
      BY <2>3 DEF Policy!FirstClick, Policy!Pending, Policy!Deciding
    <3>2. CASE Policy!Decided(k)
      <4>1. ~Policy!ShortClick(k)
        BY <1>3, <2>3, <3>1
      <4>2. c \in Policy!Chord /\ Policy!Clicks(k) \cap pending # {}
        BY <1>4, <2>3, <3>1, <4>1 DEF Policy!ShortClick
      <4>3. pending = Policy!Chord
        BY <1>4, <1>6, <2>3, <4>2 DEF Policy!Chord, Policy!Clicks
      <4> QED
        BY <4>3 DEF Policy!PolicyInv, Policy!PolicyTypes
    <3>3. CASE ~Policy!Decided(k)
      BY <1>6, <2>3, <3>1, <3>3, ChordHolds
    <3> QED
      BY <3>2, <3>3
  <2> QED
    BY <2>1, <2>2, <2>3 DEF Policy!PolicyInv, Policy!HeldBack
<1> QED
  BY <1>5, <1>6

LEMMA WatchTypes ==
    ASSUME Policy!PolicyTypes, NEW k, Policy!Watch(k)
    PROVE  /\ x15' \in Nat /\ x15' <= x15
           /\ Policy!Clicks(x1) = {} => x15' = 0
           /\ x16' \in Nat
           /\ {"select", "start"} \subseteq k \cap x1 => x16' = x16
  BY DEF Policy!Watch, Policy!PolicyTypes

LEMMA DeliverKeeps ==
    ASSUME Policy!PolicyInv, NEW k \in SUBSET Controls, ~Policy!Withheld(k),
           Policy!Gesture(k) = "none",
           ~Policy!ChordMade(k), Policy!Deliver(k), x1' = k, Policy!Watch(k)
    PROVE  Policy!PolicyInv'
<1> DEFINE keys == x1  waiting == x2  ownerPending == x3  pending == x4  clickAge == x5
           chordSpent == x6  selecting == x8  shortcut == x9  startAge == x10
           shortcutSpent == x11  clicking == x15  together == x16
<1>1. /\ ~ownerPending /\ (waiting => k = {}) /\ ~shortcutSpent /\ ~Policy!Spent
      /\ pending \subseteq Policy!Chord /\ pending # Policy!Chord
      /\ Policy!Pending(k) \subseteq Policy!Chord /\ Policy!ClickAge(k) \in Nat /\
         Policy!StartAge(k) \in Nat
  BY OpenDelivery
<1>2. ~ownerPending' /\ ~waiting' /\ ~shortcutSpent'
  BY <1>1 DEF Policy!Deliver
<1>3. Policy!NothingBefore'
  BY <1>2 DEF Policy!NothingBefore
<1>4. /\ pending' = IF Policy!Decided(k) THEN {} ELSE Policy!Pending(k)
      /\ clickAge' = IF Policy!Decided(k) THEN 0 ELSE Policy!ClickAge(k)
      /\ startAge' = Policy!StartAge(k)
  BY DEF Policy!Deliver
<1>5. Policy!PolicyTypes'
  <2>1. pending' \subseteq Policy!Chord /\ pending' # Policy!Chord
    BY <1>1, <1>4, ChordHolds DEF Policy!Chord, Policy!Deciding, Policy!Pending,
       Policy!FirstClick
  <2>2. waiting' \in BOOLEAN /\ ownerPending' \in BOOLEAN /\ shortcutSpent' \in BOOLEAN
    BY <1>2, Zenon DEF Policy!Deliver, Policy!PolicyInv, Policy!PolicyTypes
  <2>3. chordSpent' \in BOOLEAN /\ selecting' \in BOOLEAN
    <3>1. /\ ("select" \in k) \in BOOLEAN
          /\ ((chordSpent \/ Policy!Decided(k)) /\ Policy!Clicks(k) # {}) \in BOOLEAN
      OBVIOUS
    <3> QED
      BY <3>1, Zenon DEF Policy!Deliver
  <2>4. clickAge' \in Nat /\ startAge' \in Nat
    BY <1>1, <1>4
  <2> QED
    BY <2>1, <2>2, <2>3, <2>4, WatchTypes DEF Policy!PolicyTypes, Policy!PolicyInv
<1>6. Policy!HeldBack'
  BY DeliverGives
<1>7. pending' # {} => clicking' <= clickAge'
  <2>1. CASE Policy!FirstClick(k)
    <3>1. pending = {} /\ ~chordSpent /\ ~waiting
      BY <1>1, <2>1 DEF Policy!FirstClick, Policy!Clicks, Policy!PolicyInv, Policy!PolicyTypes
    <3>2. Policy!Clicks(keys) = {}
      BY <1>1, <3>1 DEF Policy!PolicyInv, Policy!AgesAreTrue, Policy!Clicks
    <3> QED
      BY <1>1, <1>4, <3>2, WatchTypes DEF Policy!PolicyInv
  <2>2. CASE ~Policy!FirstClick(k) /\ pending' # {}
    <3>1. clickAge' = clickAge /\ pending # {}
      BY <1>4, <2>2 DEF Policy!Pending, Policy!ClickAge
    <3> QED
      BY <3>1, WatchTypes DEF Policy!PolicyInv, Policy!PolicyTypes, Policy!AgesAreTrue
  <2> QED
    BY <2>1, <2>2
<1>8. pending' = {} /\ ~chordSpent' => keys' \cap Policy!Chord = {}
  <2>1. SUFFICES ASSUME pending' = {}, ~chordSpent', Policy!Clicks(k) # {}
                 PROVE  FALSE
    BY DEF Policy!Clicks
  <2>2. ~chordSpent /\ ~Policy!Decided(k)
    BY <2>1 DEF Policy!Deliver
  <2>3. Policy!Pending(k) = {}
    BY <1>4, <2>1, <2>2
  <2> QED
    BY <2>1, <2>2, <2>3 DEF Policy!Pending, Policy!FirstClick
<1>9. selecting' => /\ shortcut' \in {"none", "start"}
                    /\ shortcut' = "start" => /\ {"select", "start"} \subseteq k
                                              /\ startAge' <= together'
  <2>1. SUFFICES ASSUME selecting'
                 PROVE  /\ shortcut' \in {"none", "start"}
                        /\ shortcut' = "start" => /\ {"select", "start"} \subseteq k
                                                  /\ startAge' <= together'
    OBVIOUS
  <2>2. "select" \in k /\ shortcut' = Policy!Shortcut(k)
    BY <2>1 DEF Policy!Deliver
  <2>3. Policy!Shortcut(k) = "start" => {"select", "start"} \subseteq k
    BY <1>1, <2>2 DEF Policy!Gesture
  <2>4. CASE Policy!Taken(k)
    <3>1. Policy!Shortcut(k) \in {"start", "x", "y"}
      BY <2>4 DEF Policy!Shortcut
    <3>2. Policy!Shortcut(k) = "start"
      BY <1>1, <2>4, <3>1 DEF Policy!Gesture
    <3>3. startAge' = 0
      BY <1>4, <2>4 DEF Policy!StartAge
    <3> QED
      BY <2>2, <2>3, <3>2, <3>3, WatchTypes DEF Policy!PolicyInv
  <2>5. CASE ~Policy!Taken(k)
    <3>1. Policy!Shortcut(k) = Policy!Current /\ startAge' = startAge
      BY <1>4, <2>2, <2>5 DEF Policy!Shortcut, Policy!StartAge
    <3>2. CASE ~selecting
      BY <2>2, <3>1, <3>2 DEF Policy!Current
    <3>3. CASE selecting
      <4>1. Policy!Current = shortcut /\ shortcut \in {"none", "start"}
        BY <1>1, <3>3 DEF Policy!Current, Policy!PolicyInv, Policy!AgesAreTrue
      <4>2. shortcut = "start" => {"select", "start"} \subseteq keys /\ startAge <= together
        BY <1>1, <3>3 DEF Policy!PolicyInv, Policy!AgesAreTrue
      <4> QED
        BY <2>2, <2>3, <3>1, <4>1, <4>2, WatchTypes DEF Policy!PolicyInv
    <3> QED
      BY <3>2, <3>3
  <2> QED
    BY <2>4, <2>5
<1>10. Policy!AgesAreTrue'
  BY <1>7, <1>8, <1>9 DEF Policy!AgesAreTrue
<1> QED
  BY <1>3, <1>5, <1>6, <1>10 DEF Policy!PolicyInv

LEMMA RequestKeeps ==
    ASSUME Policy!PolicyInv, NEW k \in SUBSET Controls, ~Policy!Withheld(k), NEW action,
           Policy!Request(k, action), x1' = k, Policy!Watch(k), x11' \in BOOLEAN,
           UNCHANGED Policy!chord \/ (x4' = {} /\ x5' = 0 /\ UNCHANGED x6)
    PROVE  Policy!PolicyInv'
<1> DEFINE waiting == x2  ownerPending == x3  pending == x4  clickAge == x5
           chordSpent == x6  selecting == x8  owed == x14
<1>1. waiting' /\ ownerPending' /\ owed' = {}
  BY DEF Policy!Request
<1>2. /\ Policy!StartAge(k) \in Nat /\ clickAge' \in Nat
      /\ pending' \in {pending, {}} /\ (pending' # {} => clickAge' = clickAge)
  BY OpenDelivery DEF Policy!chord, Policy!PolicyInv, Policy!PolicyTypes
<1>3. /\ waiting' \in BOOLEAN /\ ownerPending' \in BOOLEAN /\ selecting' \in BOOLEAN
      /\ chordSpent' \in BOOLEAN
  <2>1. ("select" \in k) \in BOOLEAN
    OBVIOUS
  <2> QED
    BY <2>1, Zenon DEF Policy!Request, Policy!chord, Policy!PolicyInv, Policy!PolicyTypes
<1>4. pending' \subseteq Policy!Chord /\ pending' # Policy!Chord
  BY <1>2 DEF Policy!PolicyInv, Policy!PolicyTypes, Policy!Chord
<1>5. Policy!PolicyTypes'
  BY <1>2, <1>3, <1>4, WatchTypes DEF Policy!PolicyInv, Policy!PolicyTypes, Policy!Request
<1>6. Policy!NothingBefore' /\ Policy!HeldBack'
  BY <1>1 DEF Policy!NothingBefore, Policy!HeldBack
<1>7. Policy!AgesAreTrue'
  BY <1>1, <1>2, WatchTypes DEF Policy!PolicyInv, Policy!PolicyTypes, Policy!AgesAreTrue
<1> QED
  BY <1>5, <1>6, <1>7 DEF Policy!PolicyInv

LEMMA WithholdKeeps ==
    ASSUME Policy!PolicyInv, NEW k \in SUBSET Controls, Policy!Withheld(k), Policy!Withhold,
           x1' = k, Policy!Watch(k)
    PROVE  Policy!PolicyInv'
<1> DEFINE waiting == x2  ownerPending == x3  owed == x14
<1>1. UNCHANGED <<waiting, ownerPending, Policy!chord, Policy!modifier>> /\ owed' = {}
  BY DEF Policy!Withhold
<1>2. waiting \/ ownerPending
  BY Zenon DEF Policy!Withheld
<1>3. Policy!PolicyTypes'
  BY <1>1, WatchTypes DEF Policy!chord, Policy!modifier, Policy!PolicyInv, Policy!PolicyTypes
<1>4. Policy!NothingBefore' /\ Policy!HeldBack'
  BY <1>1 DEF Policy!chord, Policy!modifier, Policy!PolicyInv, Policy!NothingBefore,
     Policy!HeldBack
<1>5. Policy!AgesAreTrue'
  BY <1>1, <1>2, WatchTypes DEF Policy!chord, Policy!modifier, Policy!PolicyInv,
     Policy!PolicyTypes, Policy!NothingBefore,
     Policy!AgesAreTrue
<1> QED
  BY <1>3, <1>4, <1>5 DEF Policy!PolicyInv

LEMMA UpdateKeeps ==
    ASSUME Policy!PolicyInv, NEW k \in SUBSET Controls, Policy!Update(k), x1' = k, Policy!Watch(k)
    PROVE  Policy!PolicyInv'
<1> DEFINE pending == x4  clickAge == x5  chordSpent == x6  shortcutSpent == x11
           delivered == x12
<1>1. CASE Policy!Withheld(k) /\ Policy!Withhold
  BY <1>1, WithholdKeeps
<1>2. CASE /\ ~Policy!Withheld(k) /\ Policy!Gesture(k) # "none"
           /\ Policy!Request(k, Policy!Gesture(k)) /\ delivered' = <<>>
           /\ shortcutSpent' = TRUE /\ UNCHANGED Policy!chord
  BY <1>2, RequestKeeps
<1>3. CASE /\ ~Policy!Withheld(k) /\ Policy!Gesture(k) = "none" /\ Policy!ChordMade(k)
           /\ Policy!Request(k, "Panel") /\ delivered' = Policy!SelectPulse(k)
           /\ shortcutSpent' = Policy!Spent
           /\ pending' = {} /\ clickAge' = 0 /\ UNCHANGED chordSpent
  <2>1. shortcutSpent' \in BOOLEAN
    BY <1>3, Zenon DEF Policy!Spent
  <2> QED
    BY <1>3, <2>1, RequestKeeps
<1>4. CASE ~Policy!Withheld(k) /\ Policy!Gesture(k) = "none" /\ ~Policy!ChordMade(k) /\
           Policy!Deliver(k)
  BY <1>4, DeliverKeeps
<1> QED
  BY <1>1, <1>2, <1>3, <1>4 DEF Policy!Update

LEMMA SetModeKeeps ==
    ASSUME Policy!PolicyInv, NEW k \in SUBSET Controls, NEW pendingOwner \in BOOLEAN,
           Policy!SetMode(k, pendingOwner), Policy!Watch(k)
    PROVE  Policy!PolicyInv'
<1> DEFINE keys == x1  waiting == x2  ownerPending == x3  pending == x4  clickAge == x5
           chordSpent == x6  selecting == x8  startAge == x10  shortcutSpent == x11
           owed == x14
<1>1. /\ keys' = k /\ pending' = {} /\ clickAge' = 0 /\ ~chordSpent' /\ ~selecting'
      /\ startAge' = HoldMs /\ ~shortcutSpent' /\ owed' = {}
      /\ ~waiting' => k = {}
  BY DEF Policy!SetMode
<1>2. /\ waiting' \in BOOLEAN /\ ownerPending' \in BOOLEAN /\ chordSpent' \in BOOLEAN
      /\ selecting' \in BOOLEAN /\ shortcutSpent' \in BOOLEAN
  BY Zenon DEF Policy!SetMode
<1>3. Policy!PolicyTypes'
  BY <1>1, <1>2, WatchTypes, DelaysAssumption DEF Policy!PolicyInv, Policy!PolicyTypes,
     Policy!Chord
<1>4. Policy!NothingBefore' /\ Policy!HeldBack' /\ Policy!AgesAreTrue'
  BY <1>1 DEF Policy!NothingBefore, Policy!HeldBack, Policy!AgesAreTrue
<1> QED
  BY <1>3, <1>4 DEF Policy!PolicyInv

LEMMA ElapseKeeps ==
    ASSUME Policy!PolicyInv, Policy!Elapse
    PROVE  Policy!PolicyInv'
<1> DEFINE ownerPending == x3  pending == x4  clickAge == x5  selecting == x8
           shortcut == x9  startAge == x10  clicking == x15  together == x16
<1>1. \A a \in Nat, l \in Nat : Policy!Older(a, l) \in Nat /\ a <= Policy!Older(a, l)
  BY DEF Policy!Older
<1>2. \A a, b \in Nat, l \in Nat : a <= b => Policy!Older(a, l) <= Policy!Older(b, l)
  BY DEF Policy!Older
<1>3. ChordMs + 1 \in Nat /\ HoldMs \in Nat
  BY DelaysAssumption
<1>4. Policy!PolicyTypes'
  BY <1>1, <1>3 DEF Policy!Elapse, Policy!PolicyInv, Policy!PolicyTypes
<1>5. Policy!NothingBefore' /\ Policy!HeldBack'
  BY DEF Policy!Elapse, Policy!PolicyInv, Policy!NothingBefore, Policy!HeldBack
<1>6. pending' # {} => clicking' <= clickAge'
  <2>1. CASE pending # {}
    <3>1. /\ clicking \in Nat /\ clickAge \in Nat /\ clicking <= clickAge
          /\ clickAge' = Policy!Older(clickAge, ChordMs + 1)
          /\ clicking' \in {0, Policy!Older(clicking, ChordMs + 1)}
      BY <2>1 DEF Policy!Elapse, Policy!PolicyInv, Policy!PolicyTypes, Policy!AgesAreTrue
    <3>2. Policy!Older(clicking, ChordMs + 1) <= Policy!Older(clickAge, ChordMs + 1)
      BY <3>1, <1>2, <1>3
    <3>3. Policy!Older(clickAge, ChordMs + 1) \in Nat
      BY <3>1, <1>1, <1>3
    <3> QED
      BY <3>1, <3>2, <3>3
  <2>2. CASE pending = {}
    BY <2>2 DEF Policy!Elapse
  <2> QED
    BY <2>1, <2>2
<1>7. ~ownerPending' /\ selecting' /\ shortcut' = "start" => startAge' <= together'
  BY <1>2, <1>3 DEF Policy!Elapse, Policy!PolicyInv, Policy!PolicyTypes, Policy!AgesAreTrue
<1>8. Policy!AgesAreTrue'
  BY <1>6, <1>7 DEF Policy!Elapse, Policy!PolicyInv, Policy!AgesAreTrue
<1> QED
  BY <1>4, <1>5, <1>8 DEF Policy!PolicyInv

LEMMA PolicyInductive ==
    ASSUME Policy!PolicyInv, [Policy!Next]_(Policy!vars)
    PROVE  Policy!PolicyInv'
<1> DEFINE keys == x1
<1>1. CASE UNCHANGED Policy!vars
  BY <1>1 DEF Policy!vars, Policy!chord, Policy!modifier, Policy!PolicyInv, Policy!PolicyTypes,
     Policy!NothingBefore, Policy!HeldBack,
     Policy!AgesAreTrue
<1>2. CASE Policy!Report
  BY <1>2, UpdateKeeps DEF Policy!Report
<1>3. CASE Policy!Poll
  <2>1. keys \in SUBSET Controls
    BY DEF Policy!PolicyInv, Policy!PolicyTypes
  <2> QED
    BY <1>3, <2>1, UpdateKeeps DEF Policy!Poll
<1>4. CASE Policy!Grant
  BY <1>4, SetModeKeeps DEF Policy!Grant
<1>5. CASE Policy!Dropped
  BY <1>5, SetModeKeeps DEF Policy!Dropped, Policy!PolicyInv, Policy!PolicyTypes
<1> QED
  BY <1>1, <1>2, <1>3, <1>4, <1>5, ElapseKeeps DEF Policy!Next

(* The panel and the kill, when an update asks for them. *)
LEMMA GestureIsTrue ==
    ASSUME Policy!PolicyInv, [Policy!Next]_(Policy!vars), Policy!PanelIsTimely, Policy!KillIsHeld
    PROVE  Policy!PanelIsTimely' /\ Policy!KillIsHeld'
<1> DEFINE keys == x1  waiting == x2  ownerPending == x3  pending == x4  clickAge == x5
           chordSpent == x6  selecting == x8  shortcut == x9  startAge == x10
           asked == x13  clicking == x15  together == x16
<1>1. ASSUME NEW k \in SUBSET Controls, Policy!Update(k), keys' = k, Policy!Watch(k),
             asked' = "Panel"
      PROVE  Policy!PanelIsTimely'
  <2>1. ~Policy!Withheld(k) /\ Policy!ChordMade(k)
    BY <1>1 DEF Policy!Update, Policy!Withhold, Policy!Deliver, Policy!Request, Policy!Gesture
  <2>2. /\ ~ownerPending /\ (waiting => k = {}) /\ Policy!ClickAge(k) \in Nat
    BY <2>1, OpenDelivery
  <2>3. Policy!Clicks(k) = Policy!Chord /\ Policy!ClickAge(k) <= ChordMs /\
        Policy!Pending(k) # {} /\ ~chordSpent
    BY <2>1 DEF Policy!ChordMade, Policy!Deciding
  <2>4. clicking' <= Policy!ClickAge(k)
    <3>1. CASE Policy!FirstClick(k)
      <4>1. Policy!Clicks(keys) = {}
        BY <2>2, <2>3, <3>1 DEF Policy!PolicyInv, Policy!AgesAreTrue, Policy!Clicks,
           Policy!Chord, Policy!FirstClick, Policy!PolicyTypes
      <4> QED
        BY <1>1, <2>2, <4>1, WatchTypes DEF Policy!PolicyInv
    <3>2. CASE ~Policy!FirstClick(k)
      <4>1. pending # {} /\ Policy!ClickAge(k) = clickAge
        BY <2>3, <3>2 DEF Policy!Pending, Policy!ClickAge
      <4> QED
        BY <1>1, <4>1, WatchTypes DEF Policy!PolicyInv, Policy!PolicyTypes, Policy!AgesAreTrue
    <3> QED
      BY <3>1, <3>2
  <2>5. clicking' \in Nat
    BY <1>1, WatchTypes DEF Policy!PolicyInv
  <2> QED
    BY <1>1, <2>2, <2>3, <2>4, <2>5, DelaysAssumption DEF Policy!PanelIsTimely, Policy!Clicks
<1>2. ASSUME NEW k \in SUBSET Controls, Policy!Update(k), keys' = k, Policy!Watch(k),
             asked' = "Kill"
      PROVE  Policy!KillIsHeld'
  <2>1. ~Policy!Withheld(k) /\ Policy!Gesture(k) = "Kill"
    BY <1>2 DEF Policy!Update, Policy!Withhold, Policy!Deliver, Policy!Request
  <2>2. /\ {"select", "start"} \subseteq k /\ Policy!StartAge(k) >= HoldMs /\
           Policy!Shortcut(k) = "start"
    BY <2>1 DEF Policy!Gesture
  <2>3. CASE Policy!Taken(k)
    BY <1>2, <2>2, <2>3, WatchTypes, DelaysAssumption DEF Policy!StartAge, Policy!KillIsHeld,
       Policy!PolicyInv
  <2>4. CASE ~Policy!Taken(k)
    <3>1. selecting /\ shortcut = "start" /\ startAge >= HoldMs
      BY <2>2, <2>4 DEF Policy!Shortcut, Policy!Current, Policy!StartAge
    <3>2. {"select", "start"} \subseteq keys /\ startAge <= together
      BY <2>1, <3>1, OpenDelivery DEF Policy!PolicyInv, Policy!AgesAreTrue
    <3>3. together' = together
      BY <1>2, <2>2, <3>2, WatchTypes DEF Policy!PolicyInv
    <3> QED
      BY <3>1, <3>2, <3>3, DelaysAssumption DEF Policy!PolicyInv, Policy!PolicyTypes,
         Policy!KillIsHeld
  <2> QED
    BY <2>3, <2>4
<1>3. CASE Policy!Report
  BY <1>1, <1>2, <1>3 DEF Policy!Report, Policy!PanelIsTimely, Policy!KillIsHeld
<1>4. CASE Policy!Poll
  <2>1. keys \in SUBSET Controls
    BY DEF Policy!PolicyInv, Policy!PolicyTypes
  <2> QED
    BY <1>1, <1>2, <1>4, <2>1 DEF Policy!Poll, Policy!PanelIsTimely, Policy!KillIsHeld
<1>5. CASE Policy!Grant \/ Policy!Dropped \/ Policy!Elapse
  BY <1>5 DEF Policy!Grant, Policy!Dropped, Policy!Elapse, Policy!SetMode,
     Policy!PanelIsTimely, Policy!KillIsHeld
<1>6. CASE UNCHANGED Policy!vars
  BY <1>6 DEF Policy!vars, Policy!PanelIsTimely, Policy!KillIsHeld
<1> QED
  BY <1>3, <1>4, <1>5, <1>6 DEF Policy!Next

LEMMA PolicyBegins == Policy!Init => Policy!PolicyInv /\ Policy!PanelIsTimely /\ Policy!KillIsHeld
<1> DEFINE waiting == x2  ownerPending == x3  chordSpent == x6  selecting == x8
           shortcutSpent == x11
<1> SUFFICES ASSUME Policy!Init PROVE Policy!PolicyInv /\ Policy!PanelIsTimely /\
                    Policy!KillIsHeld
  OBVIOUS
<1>1. Policy!PolicyTypes
  <2>1. /\ waiting \in BOOLEAN /\ ownerPending \in BOOLEAN /\ chordSpent \in BOOLEAN
        /\ selecting \in BOOLEAN /\ shortcutSpent \in BOOLEAN
    BY Zenon DEF Policy!Init
  <2> QED
    BY <2>1, DelaysAssumption DEF Policy!Init, Policy!PolicyTypes, Policy!Chord
<1>2. Policy!NothingBefore /\ Policy!HeldBack /\ Policy!AgesAreTrue /\ Policy!PanelIsTimely /\
      Policy!KillIsHeld
  BY DEF Policy!Init, Policy!NothingBefore, Policy!HeldBack, Policy!AgesAreTrue,
     Policy!PanelIsTimely, Policy!KillIsHeld
<1> QED
  BY <1>1, <1>2 DEF Policy!PolicyInv

PolicyPart ==
    part = "policy" => Policy!PolicyInv /\ Policy!PanelIsTimely /\ Policy!KillIsHeld

(* Whatever is pressed, held and let go in whichever order, and whenever the owner *)
(* changes or reports are lost: no press is lost behind a gesture, the panel opens *)
(* for clicks that overlap in time and a kill for a full hold (input-route.h).     *)
THEOREM GesturesAreTrue == Spec => []GesturesHold
<1>1. Init => PolicyPart
  BY PolicyBegins DEF Init, PolicyPart
<1>2. PolicyPart /\ [Next]_mcVars => PolicyPart'
  BY OwnSteps, PolicyInductive, GestureIsTrue DEF PolicyPart
<1>3. PolicyPart => GesturesHold
  BY DEF PolicyPart, GesturesHold, Policy!PolicyInv, Policy!HeldBack, Policy!EveryPressArrives
<1> QED
  BY <1>1, <1>2, <1>3, PTL DEF Spec

-----------------------------------------------------------------------------
(* The Wi-Fi share.  A handler that compares a code holds the lock and had room for *)
(* one more guess when it took it, and every socket but the one that is being       *)
(* registered is in the set that the last halt cuts.                                *)
(* What is known of finite sets, of the counting of the share. *)
LEMMA CountsAlike ==
    /\ \A S : Share!IsFiniteSet(S) <=> IsFiniteSet(S)
    /\ \A S : Share!Cardinality(S) = Cardinality(S)
<1>1. \A S : Share!IsFiniteSet(S) <=> IsFiniteSet(S)
  BY DEF Share!IsFiniteSet, IsFiniteSet
<1>2. \A S : Share!Cardinality(S) = Cardinality(S)
  BY DEF Share!Cardinality, Cardinality
<1> QED
  BY <1>1, <1>2

LEMMA NoGuess == Share!IsFiniteSet({}) /\ Share!Cardinality({}) = 0
BY CountsAlike, FS_EmptySet

LEMMA GuessCount ==
    ASSUME NEW S, Share!IsFiniteSet(S)
    PROVE  Share!Cardinality(S) \in Nat
BY CountsAlike, FS_CardinalityType

LEMMA GuessAdded ==
    ASSUME NEW S, NEW x, Share!IsFiniteSet(S)
    PROVE  /\ Share!IsFiniteSet(S \cup {x})
           /\ Share!Cardinality(S \cup {x})
                = IF x \in S THEN Share!Cardinality(S) ELSE Share!Cardinality(S) + 1
BY CountsAlike, FS_AddElement

LEMMA FewerGuesses ==
    ASSUME NEW S, Share!IsFiniteSet(S), NEW T \in SUBSET S
    PROVE  Share!IsFiniteSet(T) /\ Share!Cardinality(T) <= Share!Cardinality(S)
BY CountsAlike, FS_Subset

LEMMA ShareLocal ==
    ASSUME Share!ShareInv, [Share!ShareNext]_(Share!shareVars),
           {"free", "main", "none", "owner"} \cap Peers = {},
           Blocks \in Nat
    PROVE  Share!ShareTypes' /\ Share!LockIsHeld'
<1> DEFINE now == x2  guesses == x9
<1> USE DEF Share!ShareInv, Share!ShareTypes, Share!LockIsHeld, Share!Kinds, Share!Steps,
    Share!Live
<1>1. CASE UNCHANGED Share!shareVars
  BY <1>1 DEF Share!shareVars, Share!world, Share!tree, Share!state, Share!net, Share!threads,
     Share!conn
<1>2. CASE Share!Trouble \/ Share!Tick \/ Share!OwnerSaves
  BY <1>2 DEF Share!Trouble, Share!Tick, Share!OwnerSaves, Share!world, Share!tree,
     Share!state, Share!net, Share!threads, Share!conn
<1>3. CASE Share!WatcherSamples \/ Share!WatcherHalts \/ Share!ParentStops \/
           Share!ParentHalts \/ Share!Sigterm \/ Share!SigtermHalts
  BY <1>3 DEF Share!WatcherSamples, Share!WatcherHalts, Share!ParentStops, Share!ParentHalts,
     Share!Sigterm, Share!SigtermHalts, Share!CutAll,
     Share!world, Share!tree, Share!state, Share!net, Share!threads, Share!conn
<1>4. CASE Share!TakeLock \/ Share!LeaveLoop \/ Share!FinalHalt \/ Share!FinalCut \/ Share!Close
  BY <1>4 DEF Share!TakeLock, Share!LeaveLoop, Share!FinalHalt, Share!FinalCut, Share!Close,
     Share!world, Share!tree, Share!state, Share!net, Share!threads, Share!conn
<1>5. ASSUME NEW c \in Peers, Share!Register(c) \/ Share!Accept(c)
      PROVE  Share!ShareTypes' /\ Share!LockIsHeld'
  BY <1>5 DEF Share!Register, Share!Accept, Share!world, Share!tree, Share!state, Share!net,
     Share!threads, Share!conn
<1>6. ASSUME NEW c \in Peers, Share!Request(c) \/ Share!NoRequest(c) \/ Share!TakeSession(c)
      PROVE  Share!ShareTypes' /\ Share!LockIsHeld'
  BY <1>6 DEF Share!Request, Share!NoRequest, Share!TakeSession, Share!Go, Share!world,
     Share!tree, Share!state, Share!net, Share!threads, Share!conn
<1>7. ASSUME NEW c \in Peers, Share!Compare(c)
      PROVE  Share!ShareTypes' /\ Share!LockIsHeld'
  <2>1. Share!IsFiniteSet(guesses') /\ \A g \in guesses' : g.at \in Nat /\ g.at <= now'
    <3>1. Share!IsFiniteSet(guesses \cup {[who |-> c, at |-> now]})
      BY GuessAdded
    <3>2. guesses' \in {guesses, guesses \cup {[who |-> c, at |-> now]}} /\ now' = now
      BY <1>7 DEF Share!Compare, Share!world
    <3>3. \A g \in guesses \cup {[who |-> c, at |-> now]} : g.at \in Nat /\ g.at <= now
      OBVIOUS
    <3>4. CASE guesses' = guesses
      BY <3>2, <3>4
    <3>5. CASE guesses' = guesses \cup {[who |-> c, at |-> now]}
      <4>1. Share!IsFiniteSet(guesses')
        BY <3>1, <3>5
      <4> QED
        BY <4>1, <3>2, <3>3, <3>5
    <3> QED
      BY <3>2, <3>4, <3>5
  <2> QED
    BY <1>7, <2>1 DEF Share!Compare, Share!Go, Share!world, Share!tree, Share!state, Share!net,
       Share!threads, Share!conn
<1>8. ASSUME NEW c \in Peers, Share!TakePermit(c) \/ Share!CheckName(c) \/ Share!Block(c) \/
             Share!BreakOff(c)
      PROVE  Share!ShareTypes' /\ Share!LockIsHeld'
  BY <1>8 DEF Share!TakePermit, Share!CheckName, Share!Block, Share!BreakOff, Share!Go,
     Share!world, Share!tree, Share!state, Share!net, Share!threads, Share!conn
<1>9. ASSUME NEW c \in Peers, Share!Whole(c) \/ Share!Publish(c) \/ Share!Undo(c) \/
             Share!Leave(c)
      PROVE  Share!ShareTypes' /\ Share!LockIsHeld'
  BY <1>9 DEF Share!Whole, Share!Publish, Share!Undo, Share!Leave, Share!Go, Share!world,
     Share!tree, Share!state, Share!net, Share!threads, Share!conn
<1> QED
  BY <1>1, <1>2, <1>3, <1>4, <1>5, <1>6, <1>7, <1>8, <1>9
     DEF Share!ShareNext, Share!MainOwn, Share!HandlerOwn, Share!HandlerClient

LEMMA ShareUploads ==
    ASSUME Share!ShareInv, [Share!ShareNext]_(Share!shareVars),
           {"free", "main", "none", "owner"} \cap Peers = {},
           Blocks \in Nat
    PROVE  Share!UploadIsWhole' /\ Share!NothingHalf' /\ Share!SocketIsKnown' /\
           Share!JoinWaitsForCut'
<1> DEFINE file == x3  partial == x4  sockets == x7  cut == x8  main == x11  pc == x15
           got == x17
<1> USE DEF Share!ShareInv, Share!ShareTypes, Share!LockIsHeld, Share!Kinds, Share!Steps,
    Share!UploadIsWhole, Share!NothingHalf,
        Share!SocketIsKnown, Share!JoinWaitsForCut, Share!Live
<1>1. CASE UNCHANGED Share!shareVars
  BY <1>1 DEF Share!shareVars, Share!world, Share!tree, Share!state, Share!net, Share!threads,
     Share!conn
<1>2. CASE Share!Trouble \/ Share!Tick \/ Share!OwnerSaves
  BY <1>2 DEF Share!Trouble, Share!Tick, Share!OwnerSaves, Share!world, Share!tree,
     Share!state, Share!net, Share!threads, Share!conn
<1>3. CASE Share!WatcherSamples \/ Share!WatcherHalts \/ Share!ParentStops \/
           Share!ParentHalts \/ Share!Sigterm \/ Share!SigtermHalts
  BY <1>3 DEF Share!WatcherSamples, Share!WatcherHalts, Share!ParentStops, Share!ParentHalts,
     Share!Sigterm, Share!SigtermHalts, Share!CutAll,
     Share!world, Share!tree, Share!state, Share!net, Share!threads, Share!conn
<1>4. CASE Share!TakeLock \/ Share!LeaveLoop \/ Share!FinalHalt \/ Share!FinalCut \/ Share!Close
  BY <1>4 DEF Share!TakeLock, Share!LeaveLoop, Share!FinalHalt, Share!FinalCut, Share!Close,
     Share!world, Share!tree, Share!state, Share!net, Share!threads, Share!conn
<1>5. ASSUME NEW c \in Peers, Share!Register(c) \/ Share!Accept(c)
      PROVE  Share!UploadIsWhole' /\ Share!NothingHalf' /\ Share!SocketIsKnown' /\
             Share!JoinWaitsForCut'
  BY <1>5 DEF Share!Register, Share!Accept, Share!world, Share!tree, Share!state, Share!net,
     Share!threads, Share!conn
<1>6. ASSUME NEW c \in Peers, Share!Request(c) \/ Share!NoRequest(c) \/ Share!TakeSession(c) \/
             Share!Compare(c)
      PROVE  Share!UploadIsWhole' /\ Share!NothingHalf' /\ Share!SocketIsKnown' /\
             Share!JoinWaitsForCut'
  BY <1>6 DEF Share!Request, Share!NoRequest, Share!TakeSession, Share!Compare, Share!Go,
     Share!world, Share!tree, Share!state, Share!net, Share!threads, Share!conn
<1>8. ASSUME NEW c \in Peers, Share!TakePermit(c) \/ Share!CheckName(c) \/ Share!Block(c) \/
             Share!BreakOff(c)
      PROVE  Share!UploadIsWhole' /\ Share!NothingHalf' /\ Share!SocketIsKnown' /\
             Share!JoinWaitsForCut'
  BY <1>8 DEF Share!TakePermit, Share!CheckName, Share!Block, Share!BreakOff, Share!Go,
     Share!world, Share!tree, Share!state, Share!net, Share!threads, Share!conn
<1>9. ASSUME NEW c \in Peers, Share!Whole(c)
      PROVE  Share!UploadIsWhole' /\ Share!NothingHalf' /\ Share!SocketIsKnown' /\
             Share!JoinWaitsForCut'
  BY <1>9 DEF Share!Whole, Share!Go, Share!world, Share!tree, Share!state, Share!net,
     Share!threads, Share!conn
<1>12. ASSUME NEW c \in Peers, Share!Undo(c)
       PROVE  Share!UploadIsWhole' /\ Share!NothingHalf' /\ Share!SocketIsKnown' /\
              Share!JoinWaitsForCut'
  BY <1>12 DEF Share!Undo, Share!Go, Share!world, Share!tree, Share!state, Share!net,
     Share!threads, Share!conn
<1>11. ASSUME NEW c \in Peers, Share!Leave(c)
       PROVE  Share!UploadIsWhole' /\ Share!NothingHalf' /\ Share!SocketIsKnown' /\
              Share!JoinWaitsForCut'
  BY <1>11 DEF Share!Leave, Share!Go, Share!world, Share!tree, Share!state, Share!net,
     Share!threads, Share!conn
<1>10. ASSUME NEW c \in Peers, Share!Publish(c)
       PROVE  Share!UploadIsWhole' /\ Share!NothingHalf' /\ Share!SocketIsKnown' /\
              Share!JoinWaitsForCut'
  <2>1. pc[c] = "publish" /\ pc' = [pc EXCEPT ![c] = "undo"] /\ got' = got /\ main' = main
        /\ sockets' = sockets /\ cut' = cut /\ partial' \subseteq partial
    BY <1>10 DEF Share!Publish, Share!Go, Share!net, Share!threads, Share!tree
  <2>2. file' = file \/ file' = c
    BY <1>10 DEF Share!Publish, Share!tree
  <2>3. Share!Live' = Share!Live /\ c \in Share!Live
    BY <2>1
  <2>4. Share!UploadIsWhole'
    BY <2>1, <2>3
  <2>5. Share!NothingHalf'
    BY <2>1, <2>2, <2>3
  <2>6. Share!SocketIsKnown' /\ Share!JoinWaitsForCut'
    BY <2>1, <2>3
  <2> QED
    BY <2>4, <2>5, <2>6
<1> QED
  BY <1>1, <1>2, <1>3, <1>4, <1>5, <1>6, <1>8, <1>9, <1>10, <1>11, <1>12
     DEF Share!ShareNext, Share!MainOwn, Share!HandlerOwn, Share!HandlerClient

(* Time only makes guesses old, and a guess is added only by the handler that      *)
(* found room for it, which holds the lock since.                                  *)
LEMMA GuessFits ==
    ASSUME Share!ShareInv, NEW c \in Peers, Share!Compare(c), MaxAttempts \in Nat, Window \in Nat
    PROVE  Share!GuessesBounded'
<1> DEFINE now == x2  guesses == x9
<1> DEFINE new == [who |-> c, at |-> now]
<1> SUFFICES ASSUME NEW t \in 0 .. ShareTime
             PROVE  Share!Cardinality({g \in guesses' : g.at \in t .. t + Window}) <= MaxAttempts
  BY DEF Share!GuessesBounded
<1> USE DEF Share!ShareInv, Share!ShareTypes
<1> DEFINE Seen == {g \in guesses : g.at \in t .. t + Window}
           After == {g \in guesses' : g.at \in t .. t + Window}
<1>1. Share!Cardinality(Seen) <= MaxAttempts
  BY DEF Share!GuessesBounded
<1>2. Share!Cardinality(Share!Recent) < MaxAttempts
  BY DEF Share!RoomIsLeft, Share!Compare
<1>3. CASE guesses' = guesses \/ now \notin t .. t + Window
  <2>1. After = Seen
    BY <1>3 DEF Share!Compare
  <2> QED
    BY <2>1, <1>1
<1>4. CASE guesses' # guesses /\ now \in t .. t + Window
  <2>1. Seen \subseteq Share!Recent
    BY <1>4 DEF Share!Recent
  <2>2. After \subseteq Share!Recent \cup {new}
    BY <1>4, <2>1 DEF Share!Compare
  <2>3. Share!IsFiniteSet(Share!Recent) /\ Share!IsFiniteSet(Share!Recent \cup {new})
    BY FewerGuesses, GuessAdded DEF Share!Recent
  <2>4. Share!Cardinality(Share!Recent \cup {new}) <= Share!Cardinality(Share!Recent) + 1
    <3>2. Share!Cardinality(Share!Recent) \in Nat
      BY <2>3, GuessCount
    <3>3. Share!Cardinality(Share!Recent \cup {new})
            = IF new \in Share!Recent THEN Share!Cardinality(Share!Recent)
            ELSE Share!Cardinality(Share!Recent) + 1
      BY <2>3, GuessAdded
    <3> HIDE DEF new
    <3> QED
      BY <3>2, <3>3
  <2>5. Share!Cardinality(After) <= Share!Cardinality(Share!Recent \cup {new})
    BY <2>2, <2>3, FewerGuesses
  <2>6. Share!IsFiniteSet(After)
    BY <2>2, <2>3, FewerGuesses
  <2>7. Share!Cardinality(Share!Recent) \in Nat /\ Share!Cardinality(After) \in Nat /\
        Share!Cardinality(Share!Recent \cup {new}) \in Nat
    BY <2>3, <2>6, GuessCount
  <2> QED
    BY <1>2, <2>4, <2>5, <2>7
<1> QED
  BY <1>3, <1>4

LEMMA ShareGuesses ==
    ASSUME Share!ShareInv, [Share!ShareNext]_(Share!shareVars),
           {"free", "main", "none", "owner"} \cap Peers = {},
           Blocks \in Nat, MaxAttempts \in Nat, Window \in Nat
    PROVE  Share!RoomIsLeft' /\ Share!GuessesBounded'
<1> DEFINE now == x2  guesses == x9  pc == x15
<1>0. Share!ShareTypes' /\ Share!LockIsHeld'
  BY ShareLocal
<1>1. CASE guesses' = guesses /\ now' = now /\ \A c \in Peers : pc'[c] = "compare" =>
           pc[c] = "compare"
  BY <1>1 DEF Share!ShareInv, Share!RoomIsLeft, Share!GuessesBounded, Share!Recent
<1>2. CASE Share!Tick
  <2>1. Share!Recent' \subseteq Share!Recent
    BY <1>2 DEF Share!Tick, Share!ShareInv, Share!ShareTypes, Share!Recent, Share!state
  <2>2. Share!IsFiniteSet(Share!Recent)
    BY FewerGuesses DEF Share!Recent, Share!ShareInv, Share!ShareTypes
  <2>3. Share!IsFiniteSet(Share!Recent')
    BY <2>1, <2>2, FewerGuesses
  <2>4. Share!Cardinality(Share!Recent') <= Share!Cardinality(Share!Recent)
    BY <2>1, <2>2, FewerGuesses
  <2>5. Share!Cardinality(Share!Recent') \in Nat /\ Share!Cardinality(Share!Recent) \in Nat
    BY <2>2, <2>3, GuessCount
  <2>6. \A c \in Peers : pc'[c] = "compare" => Share!Cardinality(Share!Recent') < MaxAttempts
    BY <2>4, <2>5, <1>2 DEF Share!Tick, Share!conn, Share!RoomIsLeft, Share!ShareInv
  <2>7. guesses' = guesses
    BY <1>2 DEF Share!Tick, Share!state
  <2> QED
    BY <2>6, <2>7 DEF Share!RoomIsLeft, Share!GuessesBounded, Share!ShareInv
<1>3. ASSUME NEW c \in Peers, Share!TakeSession(c)
      PROVE  Share!RoomIsLeft' /\ Share!GuessesBounded'
  <2>1. Share!IsFiniteSet(Share!Recent) /\ Share!Cardinality(Share!Recent) \in Nat
    BY FewerGuesses, GuessCount DEF Share!Recent, Share!ShareInv, Share!ShareTypes
  <2>2. guesses' = guesses /\ Share!Recent' = Share!Recent
    BY <1>3 DEF Share!TakeSession, Share!state, Share!world, Share!Recent
  <2>3. \A d \in Peers : pc'[d] = "compare" => Share!Cardinality(Share!Recent) < MaxAttempts
    BY <1>3, <2>1 DEF Share!TakeSession, Share!Go, Share!RoomIsLeft, Share!ShareInv,
       Share!ShareTypes
  <2> QED
    BY <2>2, <2>3 DEF Share!RoomIsLeft, Share!GuessesBounded, Share!ShareInv
<1>4. ASSUME NEW c \in Peers, Share!Compare(c)
      PROVE  Share!RoomIsLeft' /\ Share!GuessesBounded'
  <2>1. Share!GuessesBounded'
    BY <1>4, GuessFits
  <2>2. \A d \in Peers : pc'[d] # "compare"
    BY <1>4 DEF Share!Compare, Share!Go, Share!ShareInv, Share!ShareTypes, Share!LockIsHeld
  <2> QED
    BY <2>1, <2>2 DEF Share!RoomIsLeft
<1>5. CASE UNCHANGED Share!shareVars
  BY <1>1, <1>5 DEF Share!shareVars, Share!world, Share!state, Share!conn
<1>6. CASE Share!Trouble \/ Share!OwnerSaves
  BY <1>1, <1>6 DEF Share!Trouble, Share!OwnerSaves, Share!world, Share!state, Share!conn
<1>7. CASE Share!WatcherSamples \/ Share!WatcherHalts \/ Share!ParentStops \/
           Share!ParentHalts \/ Share!Sigterm \/ Share!SigtermHalts
  BY <1>1, <1>7 DEF Share!WatcherSamples, Share!WatcherHalts, Share!ParentStops,
     Share!ParentHalts, Share!Sigterm, Share!SigtermHalts,
     Share!CutAll, Share!world, Share!state, Share!conn
<1>8. CASE Share!TakeLock \/ Share!LeaveLoop \/ Share!FinalHalt \/ Share!FinalCut \/ Share!Close
  BY <1>1, <1>8 DEF Share!TakeLock, Share!LeaveLoop, Share!FinalHalt, Share!FinalCut,
     Share!Close, Share!world, Share!state, Share!conn
<1>9. ASSUME NEW c \in Peers, Share!Register(c) \/ Share!Accept(c)
      PROVE  Share!RoomIsLeft' /\ Share!GuessesBounded'
  BY <1>1, <1>9 DEF Share!Register, Share!Accept, Share!world, Share!state, Share!conn,
     Share!ShareInv, Share!ShareTypes
<1>10. ASSUME NEW c \in Peers, Share!HandlerClient(c) \/ Share!TakePermit(c) \/ Share!CheckName(c)
       PROVE  Share!RoomIsLeft' /\ Share!GuessesBounded'
  BY <1>1, <1>10 DEF Share!HandlerClient, Share!Request, Share!NoRequest, Share!Block,
     Share!BreakOff, Share!TakePermit, Share!CheckName, Share!Go,
     Share!world, Share!state, Share!conn, Share!ShareInv, Share!ShareTypes, Share!Kinds
<1>11. ASSUME NEW c \in Peers, Share!Whole(c) \/ Share!Publish(c) \/ Share!Undo(c) \/
              Share!Leave(c)
       PROVE  Share!RoomIsLeft' /\ Share!GuessesBounded'
  BY <1>1, <1>11 DEF Share!Whole, Share!Publish, Share!Undo, Share!Leave, Share!Go,
     Share!world, Share!state, Share!conn, Share!ShareInv, Share!ShareTypes
<1> QED
  BY <1>2, <1>3, <1>4, <1>5, <1>6, <1>7, <1>8, <1>9, <1>10, <1>11
     DEF Share!ShareNext, Share!MainOwn, Share!HandlerOwn

LEMMA ShareInductive ==
    ASSUME Share!ShareInv, [Share!ShareNext]_(Share!shareVars),
           {"free", "main", "none", "owner"} \cap Peers = {},
           Blocks \in Nat, MaxAttempts \in Nat, Window \in Nat
    PROVE  Share!ShareInv'
BY ShareLocal, ShareUploads, ShareGuesses DEF Share!ShareInv

LEMMA ShareBegins ==
    ASSUME Share!ShareInit, {"free", "main", "none", "owner"} \cap Peers = {},
           Blocks \in Nat, MaxAttempts \in Nat, Window \in Nat
    PROVE  Share!ShareInv
<1> DEFINE guesses == x9  pc == x15  kind == x16  got == x17
<1>1. Share!ShareTypes
  <2>1. Share!IsFiniteSet(guesses) /\ guesses = {}
    BY NoGuess DEF Share!ShareInit
  <2> QED
    <3>1. pc \in [Peers -> Share!Steps] /\ kind \in [Peers -> Share!Kinds] /\
          got \in [Peers -> 0 .. Blocks]
      BY DEF Share!ShareInit, Share!Steps
    <3> QED
      BY <2>1, <3>1 DEF Share!ShareInit, Share!ShareTypes
<1>2. Share!LockIsHeld /\ Share!RoomIsLeft
  BY DEF Share!ShareInit, Share!LockIsHeld, Share!RoomIsLeft
<1>3. Share!UploadIsWhole /\ Share!SocketIsKnown /\ Share!NothingHalf /\ Share!JoinWaitsForCut
  BY DEF Share!ShareInit, Share!UploadIsWhole, Share!SocketIsKnown, Share!NothingHalf,
     Share!JoinWaitsForCut, Share!Live
<1>4. Share!GuessesBounded
  <2>1. \A t \in 0 .. ShareTime : {g \in guesses : g.at \in t .. t + Window} = {}
    BY DEF Share!ShareInit
  <2> QED
    BY <2>1, NoGuess DEF Share!GuessesBounded
<1> QED
  BY <1>1, <1>2, <1>3, <1>4 DEF Share!ShareInv

(* The name is given only when it is free. *)
LEMMA ShareReplacesNothing ==
    ASSUME [Share!ShareNext]_(Share!shareVars)
    PROVE  Share!NeverReplaced
<1>1. CASE UNCHANGED Share!shareVars
  BY <1>1 DEF Share!NeverReplaced, Share!shareVars, Share!tree
<1>2. CASE Share!Trouble \/ Share!Tick \/ Share!OwnerSaves \/ Share!MainOwn
  BY <1>2 DEF Share!NeverReplaced, Share!Trouble, Share!Tick, Share!OwnerSaves, Share!MainOwn,
     Share!TakeLock, Share!Register, Share!LeaveLoop,
     Share!FinalHalt, Share!FinalCut, Share!Close, Share!tree
<1>3. CASE Share!WatcherSamples \/ Share!WatcherHalts \/ Share!ParentStops \/
           Share!ParentHalts \/ Share!Sigterm \/ Share!SigtermHalts
  BY <1>3 DEF Share!NeverReplaced, Share!WatcherSamples, Share!WatcherHalts, Share!ParentStops,
     Share!ParentHalts, Share!Sigterm,
     Share!SigtermHalts, Share!CutAll, Share!tree
<1>4. ASSUME NEW c \in Peers, Share!Accept(c) \/ Share!HandlerOwn(c) \/ Share!HandlerClient(c)
      PROVE  Share!NeverReplaced
  BY <1>4 DEF Share!NeverReplaced, Share!Accept, Share!HandlerOwn, Share!TakeSession,
     Share!Compare, Share!TakePermit, Share!CheckName, Share!Whole, Share!Publish, Share!Undo,
     Share!Leave, Share!HandlerClient, Share!Request, Share!NoRequest, Share!Block,
     Share!BreakOff, Share!tree
<1> QED
  BY <1>1, <1>2, <1>3, <1>4 DEF Share!ShareNext

SharePart == part = "share" => Share!ShareInv

(* However many connections guess, upload and are cut at once, and whenever the     *)
(* watcher, the parent and SIGTERM stop the session: no window of time sees more    *)
(* wrong codes than the limit, what is published was received whole, and the main   *)
(* thread waits only for handlers whose socket was cut (transfer_server.py).        *)
THEOREM ShareIsKept == Spec => []ShareHolds
<1>1. Init => SharePart
  BY ShareBegins, PeersAssumption, ShareAssumption DEF Init, SharePart
<1>2. SharePart /\ [Next]_mcVars => SharePart'
  BY OwnSteps, ShareInductive, PeersAssumption, ShareAssumption DEF SharePart
<1>3. SharePart => ShareHolds
  BY DEF SharePart, ShareHolds, Share!ShareInv
<1> QED
  BY <1>1, <1>2, <1>3, PTL DEF Spec

-----------------------------------------------------------------------------
(* The store of ports.  An index is written that names only what was named or is    *)
(* ready, and what is removed no index names that can still come back.              *)
LEMMA SelectedAre ==
    \A i, g : g \in Store!Selected(i) <=> \E p \in Pkgs : g \in Store!Named(i.packages[p])
BY DEF Store!Selected

LEMMA NamedAre ==
    /\ \A i \in Store!Indexes : \A p \in Pkgs : Store!Named(i.packages[p]) \subseteq Store!Gens
    /\ \A i \in Store!Indexes : Store!Selected(i) \subseteq Store!Gens
<1>1. ASSUME NEW i \in Store!Indexes, NEW p \in Pkgs
             PROVE Store!Named(i.packages[p]) \subseteq Store!Gens
  <2>1. i.packages[p] \in Store!Records
    BY DEF Store!Indexes
  <2>2. i.packages[p].cur \in 0 .. MaxOps /\ i.packages[p].prev \in 0 .. MaxOps
    BY <2>1 DEF Store!Records
  <2> QED
    BY <2>2 DEF Store!Named, Store!Gens, Store!NoGen
<1> QED
  BY <1>1, SelectedAre

(* An index is written that names only what the read one named, and what is ready. *)
LEMMA IndexWritten ==
    ASSUME Store!StoreInv, NEW i \in Store!Indexes, NEW X,
           \A g \in X : x5[g] = x13 /\ x3[g] = "whole" /\ x6[g] \in x7,
           \A p \in Pkgs : Store!Named(i.packages[p]) \subseteq
                             Store!Named(x1.packages[p]) \cup (IF p = x13 THEN X ELSE {}),
           x1' \in {x1, i}, x2' \in {x2, i},
           x3' = x3, x5' = x5, x6' = x6, x7' = x7, x8' = x8, ~x17' => ~x17
    PROVE  /\ Store!OwnersAreTrue' /\ Store!GenerationsStay' /\ Store!RuntimesStay'
           /\ Store!Coming' \subseteq Store!Coming \cup X
<1> DEFINE vis == x1  dur == x2  owner == x5  pkg == x13
<1>0. Store!Selected(i) \subseteq Store!Selected(vis) \cup X
  BY SelectedAre
<1>1. Store!Selected(vis') \subseteq Store!Selected(vis) \cup X
  BY <1>0
<1>2. Store!Selected(dur') \subseteq Store!Selected(dur) \cup Store!Selected(vis) \cup X
  BY <1>0
<1>3. Store!Coming' \subseteq Store!Coming \cup X
  BY <1>1, <1>2 DEF Store!Coming
<1>4. Store!GenerationsStay'
  BY <1>3 DEF Store!GenerationsStay, Store!StoreInv, Store!StoreHolds, Store!DiskHolds, Store!InvocationHolds,
     Store!Coming
<1>5. Store!RuntimesStay'
  <2>1. Store!RuntimesStay
    BY DEF Store!StoreInv, Store!StoreHolds, Store!DiskHolds
  <2>2. /\ Store!Referenced(x1') \subseteq Store!Referenced(x1) \cup x7
        /\ Store!Referenced(x2') \subseteq Store!Referenced(x1) \cup Store!Referenced(x2) \cup x7
    BY <1>1, <1>2 DEF Store!Referenced
  <2>3. Store!Referenced(x1)' = Store!Referenced(x1') /\ Store!Referenced(x2)' = Store!Referenced(x2')
    BY DEF Store!Referenced
  <2> QED
    BY <2>1, <2>2, <2>3 DEF Store!RuntimesStay
<1>6. Store!OwnersAreTrue'
  <2> SUFFICES ASSUME NEW p \in Pkgs,
                      NEW g \in Store!Named(vis'.packages[p]) \cup Store!Named(dur'.packages[p])
               PROVE  owner[g] = p
    BY DEF Store!OwnersAreTrue
  <2>1. g \in Store!Named(i.packages[p]) \/
        g \in Store!Named(vis.packages[p]) \cup Store!Named(dur.packages[p])
    OBVIOUS
  <2>2. CASE g \in Store!Named(vis.packages[p]) \cup Store!Named(dur.packages[p])
    BY <2>2 DEF Store!StoreInv, Store!StoreHolds, Store!DiskHolds, Store!InvocationHolds, Store!OwnersAreTrue
  <2>3. CASE g \in Store!Named(i.packages[p])
    <3>1. g \in Store!Named(vis.packages[p]) \/ (p = pkg /\ g \in X)
      BY <2>3
    <3> QED
      BY <3>1 DEF Store!StoreInv, Store!StoreHolds, Store!DiskHolds, Store!InvocationHolds, Store!OwnersAreTrue
  <2> QED
    BY <2>1, <2>2, <2>3
<1> QED
  BY <1>3, <1>4, <1>5, <1>6

(* What no index names may change. *)
LEMMA OthersChange ==
    ASSUME Store!StoreInv, x1' = x1, x2' = x2, x8' = x8, ~x17' => ~x17,
           \A g \in Store!Coming : x5'[g] = x5[g] /\ x6'[g] = x6[g],
           \A g \in Store!Coming : x3'[g] \in {"whole", "damaged"},
           ~x8 => Store!Referenced(x1) \subseteq x7',
           ~x17 => Store!Referenced(x1) \cup Store!Referenced(x2) \subseteq x7'
    PROVE  Store!OwnersAreTrue' /\ Store!GenerationsStay' /\ Store!RuntimesStay' /\
           Store!Coming' = Store!Coming
<1> DEFINE vis == x1  dur == x2
<1>1. Store!Coming' = Store!Coming
  BY DEF Store!Coming
<1>2. Store!GenerationsStay'
  BY DEF Store!GenerationsStay, Store!Coming
<1>3. Store!Referenced(vis)' = Store!Referenced(vis) /\ Store!Referenced(dur)' = Store!Referenced(dur)
  BY DEF Store!Referenced, Store!Coming
<1>4. Store!RuntimesStay'
  BY <1>3 DEF Store!RuntimesStay
<1>5. \A p \in Pkgs :
        \A g \in Store!Named(vis.packages[p]) \cup Store!Named(dur.packages[p]) :
           g \in Store!Coming
  BY SelectedAre DEF Store!Coming
<1>6. Store!OwnersAreTrue'
  BY <1>5 DEF Store!OwnersAreTrue, Store!StoreInv, Store!StoreHolds, Store!DiskHolds, Store!InvocationHolds
<1> QED
  BY <1>1, <1>2, <1>4, <1>6

LEMMA NothingRemoved ==
    ASSUME Store!StoreInv, x1' = x1, x2' = x2, x8' = x8, ~x17' => ~x17,
           x5' = x5, x6' = x6, x3' = x3, x7' = x7
    PROVE  Store!OwnersAreTrue' /\ Store!GenerationsStay' /\ Store!RuntimesStay' /\
           Store!Coming' = Store!Coming
<1> DEFINE vis == x1  dur == x2  gen == x3  pool == x7  reverted == x8  overlooked == x17
<1>1. \A g \in Store!Coming : gen[g] \in {"whole", "damaged"}
  BY DEF Store!StoreInv, Store!StoreHolds, Store!DiskHolds, Store!InvocationHolds, Store!GenerationsStay,
     Store!Coming
<1>2. /\ ~reverted => Store!Referenced(vis) \subseteq pool
      /\ ~overlooked => Store!Referenced(vis) \cup Store!Referenced(dur) \subseteq pool
  BY DEF Store!StoreInv, Store!StoreHolds, Store!DiskHolds, Store!InvocationHolds, Store!RuntimesStay
<1> QED
  BY <1>1, <1>2, OthersChange

LEMMA ComingAre == ASSUME Store!StoreInv PROVE Store!Coming \subseteq Store!Gens
BY NamedAre DEF Store!StoreInv, Store!StoreHolds, Store!InvocationHolds, Store!StoreTypes, Store!Coming

LEMMA StoreStarts ==
    ASSUME Store!StoreInv, x8' = x8, ~x17' => ~x17, MaxOps \in Nat,
           (\E k \in Store!Changes \cup Store!Reads, p \in Pkgs : Store!Start(k, p)) \/
           Store!RemoveFails \/ Store!Kill \/ Store!WriteBack
    PROVE  Store!StoreHolds'
<1> DEFINE ops == x9  step == x11
<1>1. Store!DiskHolds' /\ Store!Coming' = Store!Coming
  BY NothingRemoved DEF Store!Start, Store!RemoveFails, Store!Kill, Store!WriteBack, Store!disk,
     Store!DiskHolds
<1> USE DEF Store!StoreInv, Store!StoreHolds, Store!DiskHolds, Store!InvocationHolds, Store!StoreTypes,
    Store!IndexIsRead, Store!FreshIsNew, Store!StagedIsReady, Store!AnswerIsKept
<1>2. ASSUME NEW k \in Store!Changes \cup Store!Reads, NEW p \in Pkgs, Store!Start(k, p)
      PROVE  Store!InvocationHolds'
  <2>1. Store!StoreTypes'
    BY <1>2 DEF Store!Start, Store!disk, Store!Changes, Store!Reads, Store!NoGen
  <2>2. Store!IndexIsRead' /\ Store!StagedIsReady' /\ Store!AnswerIsKept'
    BY <1>2 DEF Store!Start, Store!disk, Store!Gens
  <2>3. Store!FreshIsNew'
    <3>1. Store!Coming' = Store!Coming /\ Store!Coming \subseteq Store!Gens /\ ops' = ops + 1 /\
          step' = "collect"
      BY <1>1, <1>2, ComingAre DEF Store!Start
    <3>2. \A g \in Store!Coming : g <= ops
      OBVIOUS
    <3>3. \A g \in Store!Coming : g <= ops' /\ g # ops'
      BY <3>1, <3>2 DEF Store!Gens
    <3> QED
      BY <3>1, <3>3 DEF Store!Changes
  <2> QED
    BY <2>1, <2>2, <2>3
<1>3. CASE Store!RemoveFails \/ Store!Kill
  <2>1. Store!StoreTypes'
    BY <1>3 DEF Store!RemoveFails, Store!Kill, Store!Finish, Store!Failed, Store!disk, Store!Changes,
       Store!Reads
  <2>2. Store!IndexIsRead'
    BY <1>3 DEF Store!RemoveFails, Store!Kill, Store!Finish, Store!Failed, Store!disk
  <2>3. Store!FreshIsNew'
    BY <1>1, <1>3 DEF Store!RemoveFails, Store!Kill, Store!Finish, Store!Failed, Store!disk, Store!Changes
  <2>4. Store!StagedIsReady'
    BY <1>3 DEF Store!RemoveFails, Store!Kill, Store!Finish, Store!Failed, Store!disk
  <2>5. Store!AnswerIsKept'
    BY <1>3 DEF Store!RemoveFails, Store!Kill, Store!Finish, Store!Failed, Store!disk
  <2> QED
    BY <1>1, <2>1, <2>2, <2>3, <2>4, <2>5
<1>4. CASE Store!WriteBack
  <2>1. Store!Others' = Store!Others
    BY <1>4 DEF Store!WriteBack, Store!Others, Store!proc
  <2> QED
    BY <1>1, <1>4, <2>1 DEF Store!WriteBack, Store!proc, Store!DiskHolds
<1> QED
  BY <1>1, <1>2, <1>3, <1>4

LEMMA IndexCollects ==
    ASSUME Store!StoreInv, x8' = x8, ~x17' => ~x17, Store!CollectIndex
    PROVE  Store!StoreHolds'
<1> DEFINE vis == x1  dur == x2  gen == x3  owner == x5  needs == x6  pool == x7
           faults == x10  step == x11  kind == x12  pkg == x13  mem == x14  fresh == x15
           answer == x16
<1> DEFINE index == [mem EXCEPT !.runtime = "none"]
<1> USE DEF Store!StoreInv, Store!StoreHolds, Store!DiskHolds, Store!InvocationHolds, Store!StoreTypes,
    Store!IndexIsRead, Store!FreshIsNew, Store!StagedIsReady, Store!AnswerIsKept
<1>1. index \in Store!Indexes /\ index.packages = vis.packages
  BY DEF Store!Indexes, Store!CollectIndex
<1>2. vis' \in {vis, index} /\ dur' \in {dur, index}
  BY DEF Store!CollectIndex, Store!WriteIndex
<1>3. Store!DiskHolds' /\ Store!Coming' \subseteq Store!Coming \cup {}
  <2> DEFINE X == {}
  <2>1. \A p \in Pkgs : Store!Named(index.packages[p]) \subseteq
                          Store!Named(vis.packages[p]) \cup (IF p = pkg THEN X ELSE {})
    BY <1>1
  <2>2. gen' = gen /\ owner' = owner /\ needs' = needs /\ pool' = pool
    BY DEF Store!CollectIndex
  <2>3. \A g \in X : owner[g] = pkg /\ gen[g] = "whole" /\ needs[g] \in pool
    OBVIOUS
  <2> HIDE DEF X, index
  <2>4. Store!OwnersAreTrue' /\ Store!GenerationsStay' /\ Store!RuntimesStay' /\
        Store!Coming' \subseteq Store!Coming \cup X
    BY <1>1, <1>2, <2>1, <2>2, <2>3, IndexWritten
  <2> QED
    BY <2>4 DEF X
<1>4. CASE step' = "unlink" /\ UNCHANGED <<vis, dur, faults, Store!proc, answer>>
  <2>1. Store!Others' = Store!Others
    BY <1>4 DEF Store!CollectIndex, Store!Others, Store!proc
  <2>2. Store!InvocationHolds'
    BY <1>3, <1>4, <2>1 DEF Store!CollectIndex, Store!proc, Store!InvocationHolds, Store!Changes
  <2> QED
    BY <1>3, <2>2
<1>5. CASE /\ vis' = index /\ dur' = index /\ step' = "unlink" /\ mem' = index
           /\ UNCHANGED <<kind, pkg, fresh, answer>>
  <2>1. Store!Others' = Store!Others
    BY <1>1, <1>5 DEF Store!CollectIndex, Store!Others
  <2>2. index.packages = mem.packages
    BY <1>1 DEF Store!CollectIndex
  <2> HIDE DEF index
  <2>3. Store!InvocationHolds'
    BY <1>1, <1>3, <1>5, <2>1, <2>2 DEF Store!CollectIndex, Store!InvocationHolds, Store!Changes
  <2> QED
    BY <1>3, <2>3
<1>6. CASE Store!Finish(Store!Failed)
  <2>1. vis' \in Store!Indexes /\ dur' \in Store!Indexes
    BY <1>1, <1>2
  <2> HIDE DEF index
  <2>2. Store!InvocationHolds'
    BY <1>3, <1>6, <2>1 DEF Store!CollectIndex, Store!Finish, Store!Failed, Store!InvocationHolds,
       Store!Changes, Store!Reads
  <2> QED
    BY <1>3, <2>2
<1> QED
  BY <1>4, <1>5, <1>6 DEF Store!CollectIndex, Store!WriteIndex

LEMMA SameOthers ==
    ASSUME x5' = x5, x3' = x3, x13' = x13, x14'.packages = x14.packages
    PROVE  Store!Others' = Store!Others
BY DEF Store!Others

LEMMA FilesCollect ==
    ASSUME Store!StoreInv, x8' = x8, ~x17' => ~x17, Store!CollectFiles
    PROVE  Store!StoreHolds'
<1> DEFINE vis == x1  dur == x2  gen == x3  pool == x7  reverted == x8  step == x11
           kind == x12  mem == x14  fresh == x15  answer == x16  overlooked == x17
<1> USE DEF Store!StoreInv, Store!StoreHolds, Store!DiskHolds, Store!InvocationHolds, Store!StoreTypes,
    Store!IndexIsRead, Store!FreshIsNew, Store!StagedIsReady,
        Store!AnswerIsKept
<1>1. Store!DiskHolds' /\ Store!Coming' = Store!Coming
  <2>0. pool' = pool \cap Store!Referenced(vis) /\ step = "unlink"
    BY DEF Store!CollectFiles
  <2>1. ~reverted => Store!Referenced(vis) \subseteq pool'
    BY <2>0 DEF Store!RuntimesStay
  <2>3. ~overlooked => Store!Referenced(vis) \cup Store!Referenced(dur) \subseteq pool'
    BY <2>0 DEF Store!RuntimesStay, Store!Remembers
  <2>2. \A g \in Store!Coming : gen[g] \in {"whole", "damaged"}
    BY DEF Store!GenerationsStay, Store!Coming
  <2> QED
    BY <2>1, <2>2, <2>3, OthersChange DEF Store!CollectFiles
<1>2. Store!Others' = Store!Others
  BY SameOthers DEF Store!CollectFiles, Store!proc, Store!Finish
<1>3. CASE kind \in Store!Changes /\ answer = "none" /\ fresh = Store!NoGen
  BY <1>1, <1>2, <1>3 DEF Store!CollectFiles, Store!proc, Store!Changes
<1>4. CASE ~(kind \in Store!Changes /\ answer = "none" /\ fresh = Store!NoGen)
  <2>1. Store!InvocationHolds'
    BY <1>1, <1>2, <1>4 DEF Store!CollectFiles, Store!Finish, Store!Changes, Store!Reads
  <2> QED
    BY <1>1, <2>1
<1> QED
  BY <1>3, <1>4

LEMMA PortStages ==
    ASSUME Store!StoreInv, x8' = x8, ~x17' => ~x17, Store!Stage \/ Store!MoveRuntime \/
           Store!Place, MaxOps \in Nat
    PROVE  Store!StoreHolds'
<1> DEFINE vis == x1  dur == x2  gen == x3  unsynced == x4  owner == x5  needs == x6
           pool == x7  reverted == x8  ops == x9  step == x11  kind == x12  pkg == x13
           mem == x14  fresh == x15  answer == x16  overlooked == x17
<1> USE DEF Store!StoreInv, Store!StoreHolds, Store!DiskHolds, Store!InvocationHolds, Store!StoreTypes,
    Store!IndexIsRead, Store!FreshIsNew, Store!StagedIsReady,
        Store!AnswerIsKept
<1>0. /\ \A g \in Store!Coming : gen[g] \in {"whole", "damaged"}
      /\ ~reverted => Store!Referenced(vis) \subseteq pool
      /\ ~overlooked => Store!Referenced(vis) \cup Store!Referenced(dur) \subseteq pool
  BY DEF Store!GenerationsStay, Store!Coming, Store!RuntimesStay
<1>1. CASE Store!Stage /\ Store!Finish("failed") /\ UNCHANGED <<owner, needs>>
  <2>1. Store!DiskHolds' /\ Store!Coming' = Store!Coming
    BY <1>1, NothingRemoved DEF Store!Stage
  <2>2. Store!InvocationHolds'
    BY <1>1, <2>1 DEF Store!Stage, Store!Finish, Store!Changes, Store!Reads
  <2> QED
    BY <2>1, <2>2
<1>2. CASE Store!Stage /\ ~(Store!Finish("failed") /\ UNCHANGED <<owner, needs>>)
  <2>1. /\ fresh' = ops /\ owner' = [owner EXCEPT ![ops] = pkg] /\ ops' = ops /\ pkg' = pkg
        /\ step = "install" /\ step' = "runtime" /\ answer' = answer /\ mem' = mem /\ kind' = kind
        /\ gen' = gen /\ vis' = vis /\ dur' = dur /\ pool' = pool /\ unsynced' = unsynced
    BY <1>2 DEF Store!Stage
  <2>2. PICK r \in Runtimes : needs' = [needs EXCEPT ![ops] = r]
    BY <1>2 DEF Store!Stage
  <2>3. ops \in Store!Gens /\ ops \notin Store!Coming
    BY <2>1 DEF Store!Changes
  <2>4. \A g \in Store!Coming : owner'[g] = owner[g] /\ needs'[g] = needs[g]
    BY <2>1, <2>2, <2>3, ComingAre
  <2>5. Store!DiskHolds' /\ Store!Coming' = Store!Coming
    BY <1>0, <2>1, <2>4, OthersChange
  <2>6. Store!InvocationHolds'
    BY <2>1, <2>2, <2>3, <2>5 DEF Store!Changes
  <2> QED
    BY <2>5, <2>6
<1>3. CASE Store!MoveRuntime
  <2>1. Store!DiskHolds' /\ Store!Coming' = Store!Coming
    BY <1>0, <1>3, OthersChange DEF Store!MoveRuntime
  <2>2. Store!InvocationHolds'
    BY <1>3, <2>1 DEF Store!MoveRuntime, Store!Cached, Store!proc, Store!Changes
  <2> QED
    BY <2>1, <2>2
<1>4. CASE Store!Place
  <2>1. fresh \notin Store!Coming /\ fresh \in Store!Gens /\
        gen' = [gen EXCEPT ![fresh] = "whole"]
    BY <1>4 DEF Store!Place
  <2>2. \A g \in Store!Coming : gen'[g] \in {"whole", "damaged"}
    BY <1>0, <2>1, ComingAre
  <2>3. Store!DiskHolds' /\ Store!Coming' = Store!Coming
    BY <1>0, <1>4, <2>2, OthersChange DEF Store!Place
  <2>4. Store!InvocationHolds'
    BY <1>4, <2>1, <2>3 DEF Store!Place, Store!proc, Store!Changes
  <2> QED
    BY <2>3, <2>4
<1> QED
  BY <1>1, <1>2, <1>3, <1>4

LEMMA PortRemoves ==
    ASSUME Store!StoreInv, x8' = x8, ~x17' => ~x17, Store!Sweep \/ Store!Revert, MaxOps \in Nat
    PROVE  Store!StoreHolds'
<1> DEFINE vis == x1  dur == x2  gen == x3  unsynced == x4  owner == x5  needs == x6
           pool == x7  reverted == x8  ops == x9  step == x11  kind == x12  pkg == x13
           mem == x14  fresh == x15  answer == x16  overlooked == x17
<1> USE DEF Store!StoreInv, Store!StoreHolds, Store!DiskHolds, Store!InvocationHolds, Store!StoreTypes,
    Store!IndexIsRead, Store!FreshIsNew, Store!StagedIsReady,
        Store!AnswerIsKept
<1>0. /\ \A g \in Store!Coming : gen[g] \in {"whole", "damaged"}
      /\ ~reverted => Store!Referenced(vis) \subseteq pool
      /\ ~overlooked => Store!Referenced(vis) \cup Store!Referenced(dur) \subseteq pool
  BY DEF Store!GenerationsStay, Store!Coming, Store!RuntimesStay
<1>1. /\ vis' = vis /\ dur' = dur /\ owner' = owner /\ needs' = needs /\ pool' = pool /\
         ops' = ops
      /\ kind' = kind /\ pkg' = pkg /\ mem' = mem /\ fresh' = fresh /\ answer' = answer
  BY DEF Store!Sweep, Store!Revert, Store!proc
<1>2. CASE UNCHANGED <<gen, unsynced>> /\ step' = "collect" /\ Store!Sweep
  <2>1. Store!DiskHolds' /\ Store!Coming' = Store!Coming
    BY <1>1, <1>2, NothingRemoved
  <2>2. Store!Others' = {}
    BY <1>1, <1>2, <1>0, ComingAre, SameOthers DEF Store!Sweep, Store!Remove
  <2> QED
    BY <1>1, <1>2, <2>1, <2>2 DEF Store!Sweep, Store!Changes
<1>3. CASE UNCHANGED <<gen, unsynced>> /\ step' = "collect" /\ Store!Revert
  <2>1. Store!DiskHolds' /\ Store!Coming' = Store!Coming
    BY <1>1, <1>3, NothingRemoved
  <2> QED
    BY <1>1, <1>3, <2>1 DEF Store!Revert, Store!Changes
<1>4. ASSUME NEW g \in Store!Gens, g \notin Store!Coming, Store!Remove(g), step' = step
      PROVE  Store!StoreHolds'
  <2>1. \A h \in Store!Coming : gen'[h] \in {"whole", "damaged"}
    BY <1>0, <1>4, ComingAre DEF Store!Remove
  <2>2. Store!DiskHolds' /\ Store!Coming' = Store!Coming
    BY <1>0, <1>1, <2>1, OthersChange
  <2>3. gen' \in [Store!Gens -> {"absent", "whole", "half", "damaged"}] /\
        unsynced' \subseteq Store!Gens
    BY <1>4 DEF Store!Remove
  <2> QED
    BY <1>1, <1>4, <2>2, <2>3 DEF Store!Sweep, Store!Revert, Store!Changes
<1>5. CASE Store!Revert /\ gen[fresh] # "absent"
  BY <1>4, <1>5 DEF Store!Revert, Store!Gens
<1>6. ASSUME NEW g \in Store!Others, Store!Sweep, Store!Remove(g), step' = step
      PROVE  Store!StoreHolds'
  <2>1. g \in Store!Gens /\ owner[g] = pkg /\ g \notin Store!Named(vis.packages[pkg]) /\ dur = vis
    BY <1>6 DEF Store!Others, Store!Sweep
  <2>2. g \notin Store!Coming
    BY <2>1, SelectedAre DEF Store!Coming, Store!OwnersAreTrue
  <2> QED
    BY <2>1, <2>2, <1>4, <1>6
<1> QED
  BY <1>2, <1>3, <1>5, <1>6 DEF Store!Sweep, Store!Revert

LEMMA PortSelects ==
    ASSUME Store!StoreInv, x8' = x8, ~x17' => ~x17, Store!Select, MaxOps \in Nat
    PROVE  Store!StoreHolds'
<1> DEFINE vis == x1  dur == x2  gen == x3  unsynced == x4  owner == x5  needs == x6
           pool == x7  ops == x9  step == x11  kind == x12  pkg == x13  mem == x14
           fresh == x15  answer == x16
<1> USE DEF Store!StoreInv, Store!StoreHolds, Store!DiskHolds, Store!InvocationHolds, Store!StoreTypes,
    Store!IndexIsRead, Store!FreshIsNew, Store!StagedIsReady,
        Store!AnswerIsKept
<1>0. /\ gen' = gen /\ unsynced' = unsynced /\ owner' = owner /\ needs' = needs /\ pool' = pool
      /\ ops' = ops /\ step = "select" /\ mem = vis /\ fresh = ops /\ ops \in Store!Gens
  BY DEF Store!Select
<1>1. Store!Chosen.packages =
        [vis.packages EXCEPT ![pkg] = [cur |-> fresh, prev |-> vis.packages[pkg].cur]]
  BY <1>0 DEF Store!Chosen
<1>2. vis.packages[pkg] \in Store!Records /\ vis.packages \in [Pkgs -> Store!Records]
  BY DEF Store!Indexes
<1>3. Store!Chosen \in Store!Indexes
  <2>1. [cur |-> fresh, prev |-> vis.packages[pkg].cur] \in Store!Records
    BY <1>2 DEF Store!Records
  <2>2. Store!Chosen.packages \in [Pkgs -> Store!Records]
    BY <1>1, <1>2, <2>1
  <2>3. needs[fresh] \in Runtimes \cup {"none"}
    BY <1>0
  <2> QED
    BY <1>0, <1>2, <2>1, <2>3 DEF Store!Indexes, Store!Chosen
<1>4. \A p \in Pkgs : Store!Named(Store!Chosen.packages[p]) \subseteq
                        Store!Named(vis.packages[p]) \cup (IF p = pkg THEN {fresh} ELSE {})
  BY <1>1, <1>2 DEF Store!Named
<1>5. Store!Chosen.packages[pkg].cur = fresh
  BY <1>1, <1>2
<1>6. vis' \in {vis, Store!Chosen} /\ dur' \in {dur, Store!Chosen}
  BY DEF Store!Select, Store!WriteIndex
<1>7. Store!DiskHolds' /\ Store!Coming' \subseteq Store!Coming \cup {fresh}
  <2> DEFINE X == {fresh}
  <2>1. \A g \in X : owner[g] = pkg /\ gen[g] = "whole" /\ needs[g] \in pool
    BY <1>0
  <2>2. \A p \in Pkgs : Store!Named(Store!Chosen.packages[p]) \subseteq
                          Store!Named(vis.packages[p]) \cup (IF p = pkg THEN X ELSE {})
    BY <1>4
  <2> HIDE DEF X
  <2>3. Store!OwnersAreTrue' /\ Store!GenerationsStay' /\ Store!RuntimesStay' /\
        Store!Coming' \subseteq Store!Coming \cup X
    BY <1>0, <1>3, <1>6, <2>1, <2>2, IndexWritten
  <2> QED
    BY <2>3 DEF X
<1>8. vis' \in Store!Indexes /\ dur' \in Store!Indexes
  BY <1>3, <1>6
<1>9. CASE /\ vis' = Store!Chosen /\ dur' = Store!Chosen /\ step' = "sweep" /\ mem' = Store!Chosen
           /\ answer' = "installed" /\ UNCHANGED <<kind, pkg, fresh>>
  <2>1. \A g \in Store!Coming' : g <= ops
    BY <1>0, <1>7 DEF Store!Gens
  <2> QED
    BY <1>0, <1>5, <1>7, <1>8, <1>9, <2>1 DEF Store!Changes, Store!Gens, Store!NoGen
<1>10. CASE Store!Finish("uncertain")
  <2>1. \A g \in Store!Coming' : g <= ops
    BY <1>0, <1>7 DEF Store!Gens
  <2>2. mem' \in Store!Indexes
    BY <1>10 DEF Store!Finish
  <2> QED
    BY <1>0, <1>7, <1>8, <1>10, <2>1, <2>2 DEF Store!Finish, Store!Changes, Store!Reads
<1>11. CASE /\ step' = "revert" /\ answer' = "failed" /\ UNCHANGED Store!proc
            /\ UNCHANGED <<vis, dur>>
  <2>1. Store!Coming' = Store!Coming
    BY <1>11 DEF Store!Coming
  <2> QED
    BY <1>0, <1>7, <1>11, <2>1 DEF Store!proc, Store!Changes
<1> QED
  BY <1>9, <1>10, <1>11 DEF Store!Select, Store!WriteIndex

(* The two invocations that write an index of names it already has. *)
LEMMA IndexRewritten ==
    ASSUME Store!StoreInv, x8' = x8, ~x17' => ~x17, x11 # "idle", NEW i \in Store!Indexes,
           \A p \in Pkgs : Store!Named(i.packages[p]) \subseteq Store!Named(x1.packages[p]),
           x1' \in {x1, i}, x2' \in {x2, i},
           x3' = x3, x5' = x5, x6' = x6, x7' = x7, x4' = x4,
           x9' = x9
    PROVE  /\ Store!DiskHolds' /\ Store!Coming' \subseteq Store!Coming
           /\ (\E how \in {"failed", "uncertain", "rolledBack"} : Store!Finish(how)) =>
                Store!InvocationHolds'
<1> DEFINE vis == x1  dur == x2  gen == x3  owner == x5  needs == x6  pool == x7
           step == x11  kind == x12  pkg == x13  mem == x14  fresh == x15  answer == x16
<1> DEFINE X == {}
<1>1. \A g \in X : owner[g] = pkg /\ gen[g] = "whole" /\ needs[g] \in pool
  OBVIOUS
<1>2. \A p \in Pkgs : Store!Named(i.packages[p]) \subseteq
                        Store!Named(vis.packages[p]) \cup (IF p = pkg THEN X ELSE {})
  OBVIOUS
<1>3. Store!DiskHolds' /\ Store!Coming' \subseteq Store!Coming
  <2> HIDE DEF X
  <2>1. Store!OwnersAreTrue' /\ Store!GenerationsStay' /\ Store!RuntimesStay' /\
        Store!Coming' \subseteq Store!Coming \cup X
    BY <1>1, <1>2, IndexWritten
  <2> QED
    BY <2>1 DEF X, Store!DiskHolds
<1>4. ASSUME Store!Finish("failed") \/ Store!Finish("uncertain") \/ Store!Finish("rolledBack")
      PROVE  Store!InvocationHolds'
  <2>1. vis' \in Store!Indexes /\ dur' \in Store!Indexes
    BY DEF Store!StoreInv, Store!StoreHolds, Store!InvocationHolds, Store!StoreTypes
  <2>2. /\ step' = "idle" /\ kind' = "none" /\ pkg' = pkg /\ mem' = mem /\ fresh' = fresh
        /\ answer' \notin {"installed", "removed"}
    BY <1>4 DEF Store!Finish
  <2>3. Store!StoreTypes'
    BY <2>1, <2>2 DEF Store!StoreInv, Store!StoreHolds, Store!InvocationHolds, Store!StoreTypes
  <2>4. Store!FreshIsNew'
    BY <1>3, <2>2 DEF Store!StoreInv, Store!StoreHolds, Store!InvocationHolds, Store!FreshIsNew, Store!Changes
  <2> QED
    BY <2>2, <2>3, <2>4 DEF Store!InvocationHolds, Store!IndexIsRead, Store!StagedIsReady,
       Store!AnswerIsKept
<1> QED
  BY <1>3, <1>4

LEMMA PortRollsBack ==
    ASSUME Store!StoreInv, x8' = x8, ~x17' => ~x17, Store!Rollback, MaxOps \in Nat
    PROVE  Store!StoreHolds'
<1> DEFINE vis == x1  dur == x2  gen == x3  unsynced == x4  owner == x5  needs == x6
           pool == x7  ops == x9  step == x11  pkg == x13  mem == x14
<1> DEFINE rec == mem.packages[pkg]
           index == [mem EXCEPT !.packages[pkg] = [cur |-> rec.prev, prev |-> rec.cur]]
<1> USE DEF Store!StoreInv, Store!StoreHolds, Store!DiskHolds, Store!InvocationHolds, Store!StoreTypes,
    Store!IndexIsRead
<1>0. /\ gen' = gen /\ unsynced' = unsynced /\ owner' = owner /\ needs' = needs /\ pool' = pool
      /\ ops' = ops /\ step = "rollback" /\ mem = vis
  BY DEF Store!Rollback
<1>1. index.packages = [vis.packages EXCEPT ![pkg] = [cur |-> rec.prev, prev |-> rec.cur]]
      /\ index.runtime = vis.runtime
  BY <1>0 DEF Store!Indexes
<1>2. rec \in Store!Records /\ vis.packages \in [Pkgs -> Store!Records] /\ rec = vis.packages[pkg]
  BY <1>0 DEF Store!Indexes
<1>3. index \in Store!Indexes
  BY <1>0, <1>2 DEF Store!Indexes, Store!Records
<1>4. \A p \in Pkgs : Store!Named(index.packages[p]) \subseteq Store!Named(vis.packages[p])
  BY <1>1, <1>2 DEF Store!Named
<1>5. vis' \in {vis, index} /\ dur' \in {dur, index}
  BY DEF Store!Rollback, Store!WriteIndex
<1>6. Store!Finish("failed") \/ Store!Finish("uncertain") \/ Store!Finish("rolledBack")
  BY DEF Store!Rollback, Store!WriteIndex
<1> HIDE DEF index
<1>7. Store!DiskHolds' /\ Store!InvocationHolds'
  BY <1>0, <1>3, <1>4, <1>5, <1>6, IndexRewritten
<1> QED
  BY <1>7

LEMMA PortUninstalls ==
    ASSUME Store!StoreInv, x8' = x8, ~x17' => ~x17, Store!Uninstall, MaxOps \in Nat
    PROVE  Store!StoreHolds'
<1> DEFINE vis == x1  dur == x2  gen == x3  unsynced == x4  owner == x5  needs == x6
           pool == x7  ops == x9  step == x11  kind == x12  pkg == x13  mem == x14
           fresh == x15  answer == x16
<1> DEFINE index == [mem EXCEPT !.packages[pkg] = Store!Absent]
<1> USE DEF Store!StoreInv, Store!StoreHolds, Store!DiskHolds, Store!InvocationHolds, Store!StoreTypes,
    Store!IndexIsRead
<1>0. /\ gen' = gen /\ unsynced' = unsynced /\ owner' = owner /\ needs' = needs /\ pool' = pool
      /\ ops' = ops /\ step = "uninstall" /\ mem = vis
  BY DEF Store!Uninstall
<1>1. index.packages = [vis.packages EXCEPT ![pkg] = Store!Absent] /\ index.runtime = vis.runtime
  BY <1>0 DEF Store!Indexes
<1>2. vis.packages \in [Pkgs -> Store!Records] /\ Store!Absent \in Store!Records
  BY <1>0 DEF Store!Indexes, Store!Absent, Store!Records, Store!NoGen
<1>3. index \in Store!Indexes
  BY <1>0, <1>2 DEF Store!Indexes
<1>4. \A p \in Pkgs : Store!Named(index.packages[p]) \subseteq Store!Named(vis.packages[p])
  BY <1>1, <1>2 DEF Store!Named, Store!Absent
<1>5. vis' \in {vis, index} /\ dur' \in {dur, index}
  BY DEF Store!Uninstall, Store!WriteIndex
<1>6. index.packages[pkg] = Store!Absent
  BY <1>1, <1>2
<1>7. CASE Store!Finish("failed") \/ Store!Finish("uncertain")
  <2> HIDE DEF index
  <2>1. Store!DiskHolds' /\ Store!InvocationHolds'
    BY <1>0, <1>3, <1>4, <1>5, <1>7, IndexRewritten
  <2> QED
    BY <2>1
<1>8. CASE /\ vis' = index /\ dur' = index /\ step' = "remove" /\ mem' = index
           /\ answer' = "removed" /\ UNCHANGED <<kind, pkg, fresh>>
  <2> HIDE DEF index
  <2>1. Store!DiskHolds' /\ Store!Coming' \subseteq Store!Coming
    BY <1>0, <1>3, <1>4, <1>5, IndexRewritten
  <2>2. Store!FreshIsNew'
    BY <1>0, <1>8, <2>1 DEF Store!FreshIsNew, Store!Changes
  <2> QED
    BY <1>0, <1>3, <1>6, <1>8, <2>1, <2>2 DEF Store!StagedIsReady, Store!AnswerIsKept,
       Store!Changes
<1> QED
  BY <1>7, <1>8 DEF Store!Uninstall, Store!WriteIndex

LEMMA StoreRestarts ==
    ASSUME Store!StoreInv, Store!PowerFails, MaxOps \in Nat
    PROVE  Store!StoreHolds'
<1> DEFINE vis == x1  dur == x2  gen == x3  unsynced == x4  owner == x5  needs == x6
           pool == x7  reverted == x8  ops == x9  step == x11  kind == x12  pkg == x13
           mem == x14  fresh == x15  answer == x16
<1> USE DEF Store!StoreInv, Store!StoreHolds, Store!DiskHolds, Store!InvocationHolds, Store!StoreTypes,
    Store!IndexIsRead
<1>0. /\ vis' \in {vis, dur} /\ dur' = vis' /\ owner' = owner /\ needs' = needs /\ pool' = pool
      /\ ops' = ops /\ pkg' = pkg /\ mem' = mem /\ fresh' = fresh /\ step' = "idle"
      /\ kind' = "none" /\ answer' = "none" /\ unsynced' = {}
  BY DEF Store!PowerFails, Store!Finish
<1>1. PICK lost \in SUBSET unsynced : gen' = [g \in Store!Gens |-> IF g \in lost THEN "damaged"
      ELSE gen[g]]
  BY DEF Store!PowerFails
<1>2. gen' \in [Store!Gens -> {"absent", "whole", "half", "damaged"}]
  BY <1>1
<1>3. Store!Coming' \subseteq Store!Coming
  BY <1>0 DEF Store!Coming
<1>4. Store!GenerationsStay'
  BY <1>0, <1>1, <1>3, ComingAre DEF Store!GenerationsStay, Store!Coming
<1>5. Store!RuntimesStay'
  <2>1. /\ Store!Referenced(vis)' = Store!Referenced(vis')
        /\ Store!Referenced(dur)' = Store!Referenced(vis')
        /\ Store!Referenced(vis') \in {Store!Referenced(vis), Store!Referenced(dur)}
    BY <1>0 DEF Store!Referenced
  <2>2. x17' = x17
    BY DEF Store!PowerFails
  <2>3. ~reverted' => ~reverted /\ vis' = vis
    <3>1. reverted' = (reverted \/ vis' # vis)
      BY DEF Store!PowerFails
    <3> QED
      BY <3>1, Zenon
  <2>4. ~reverted' => Store!Referenced(vis') = Store!Referenced(vis)
    BY <2>3
  <2> QED
    BY <1>0, <2>1, <2>2, <2>3, <2>4 DEF Store!RuntimesStay
<1>6. Store!OwnersAreTrue'
  BY <1>0 DEF Store!OwnersAreTrue
<1>7. Store!InvocationHolds'
  BY <1>0, <1>2, <1>3 DEF Store!FreshIsNew, Store!StagedIsReady, Store!AnswerIsKept,
     Store!Changes
<1> QED
  BY <1>4, <1>5, <1>6, <1>7

(* What the properties remember is true of the next state: an invocation that finds *)
(* two indexes is noted when it begins, and a claim comes with the change.           *)
LEMMA StoreRemembers ==
    ASSUME Store!StoreInv, Store!Invocation, Store!Remember
    PROVE  Store!Remembers'
<1> DEFINE vis == x1  dur == x2  step == x11  answer == x16  overlooked == x17  changed == x18
<1>0. /\ Store!Remembers /\ Store!AnswerIsKept /\ (step # "idle" => x14 = vis) /\ vis \in Store!Indexes
      /\ step \in Store!Changes \cup {"idle", "collect", "unlink", "runtime", "place", "select",
                                    "sweep", "remove", "revert"}
  BY DEF Store!StoreInv, Store!StoreHolds, Store!InvocationHolds, Store!StoreTypes, Store!IndexIsRead
<1>01. /\ step \in Store!Changes \cup {"runtime", "place", "select"} => answer \in {"none", "failed"}
       /\ step \in {"sweep", "remove"} => dur = vis
       /\ step = "revert" => answer = "failed"
       /\ Store!Changes = {"install", "rollback", "uninstall"}
  BY <1>0 DEF Store!AnswerIsKept, Store!Remembers, Store!Changes
<1>1. ASSUME step = "idle", step' = "collect"
      PROVE  ~changed' /\ (~overlooked' => dur = vis)
  <2>1. overlooked' = (overlooked \/ vis # dur) /\ changed' = FALSE
    BY <1>1 DEF Store!Remember
  <2> QED
    BY <2>1, Zenon
<1>2. ASSUME ~(step = "idle" /\ step' = "collect")
      PROVE  /\ ~overlooked' => ~overlooked
             /\ ~changed /\ vis'.packages = vis.packages => ~changed'
  <2>1. overlooked' = overlooked /\ changed' = (changed \/ vis'.packages # vis.packages)
    BY <1>2 DEF Store!Remember
  <2> QED
    BY <2>1, Zenon
<1> USE DEF Store!Remembers
<1>3. ASSUME NEW k \in Store!Changes \cup Store!Reads, NEW p \in Pkgs, Store!Start(k, p)
      PROVE  Store!Remembers'
  BY <1>0, <1>1, <1>3 DEF Store!Start, Store!disk
<1>4. CASE Store!CollectIndex
  <2>1. step = "collect" /\ vis'.packages = vis.packages
    BY <1>0, <1>4 DEF Store!CollectIndex, Store!WriteIndex, Store!Indexes
  <2>2. /\ step' \in {"idle", "unlink"}
        /\ step' # "idle" => answer' = answer /\ ((dur' = dur /\ vis' = vis) \/ dur' = vis')
        /\ step' = "idle" => answer' = Store!Failed
    BY <1>4, <2>1 DEF Store!CollectIndex, Store!WriteIndex, Store!Finish, Store!proc
  <2> QED
    BY <1>0, <1>2, <2>1, <2>2 DEF Store!Failed
<1>5. CASE Store!CollectFiles
  BY <1>0, <1>2, <1>5 DEF Store!CollectFiles, Store!Finish, Store!proc, Store!Changes
<1>6. CASE Store!Stage \/ Store!MoveRuntime \/ Store!Place
  BY <1>0, <1>01, <1>2, <1>6 DEF Store!Stage, Store!MoveRuntime, Store!Place, Store!Finish, Store!proc
<1>7. CASE Store!Select
  BY <1>0, <1>01, <1>2, <1>7 DEF Store!Select, Store!WriteIndex, Store!Finish, Store!proc
<1>8. CASE Store!Sweep \/ Store!Revert
  BY <1>0, <1>01, <1>2, <1>8 DEF Store!Sweep, Store!Revert, Store!Remove, Store!proc
<1>9. CASE Store!RemoveFails \/ Store!Kill
  BY <1>0, <1>01, <1>2, <1>9 DEF Store!RemoveFails, Store!Kill, Store!Finish, Store!Failed, Store!disk
<1>10. CASE Store!Rollback
  BY <1>0, <1>01, <1>2, <1>10 DEF Store!Rollback, Store!WriteIndex, Store!Finish
<1>11. CASE Store!Uninstall
  BY <1>0, <1>01, <1>2, <1>11 DEF Store!Uninstall, Store!WriteIndex, Store!Finish
<1>12. CASE Store!WriteBack
  BY <1>0, <1>2, <1>12 DEF Store!WriteBack, Store!proc
<1> QED
  BY <1>3, <1>4, <1>5, <1>6, <1>7, <1>8, <1>9, <1>10, <1>11, <1>12 DEF Store!Invocation

LEMMA StoreInductive ==
    ASSUME Store!StoreInv, [Store!StoreNext]_(Store!storeVars), MaxOps \in Nat
    PROVE  Store!StoreInv'
<1>1. CASE UNCHANGED Store!storeVars
  <2>1. Store!DiskHolds' /\ Store!Coming' = Store!Coming
    BY <1>1, NothingRemoved DEF Store!storeVars, Store!disk, Store!DiskHolds
  <2>2. Store!Others' = Store!Others
    BY <1>1, SameOthers DEF Store!storeVars, Store!disk, Store!proc
  <2>3. Store!InvocationHolds'
    BY <1>1, <2>1, <2>2 DEF Store!StoreInv, Store!StoreHolds, Store!InvocationHolds, Store!StoreTypes,
       Store!IndexIsRead, Store!FreshIsNew,
       Store!StagedIsReady, Store!AnswerIsKept, Store!storeVars, Store!disk, Store!proc
  <2>4. Store!Remembers'
    BY <1>1 DEF Store!StoreInv, Store!Remembers, Store!storeVars, Store!disk, Store!proc
  <2> QED
    BY <2>1, <2>3, <2>4 DEF Store!StoreInv, Store!StoreHolds
<1>2. CASE Store!Invocation /\ Store!Remember
  <2>1. x8' = x8 /\ (~x17' => ~x17)
    BY <1>2 DEF Store!Remember
  <2>2. Store!StoreHolds'
    BY <1>2, <2>1, StoreStarts, IndexCollects, FilesCollect, PortStages, PortRemoves, PortSelects,
       PortRollsBack, PortUninstalls DEF Store!Invocation
  <2> QED
    BY <1>2, <2>2, StoreRemembers DEF Store!StoreInv
<1>3. CASE Store!PowerFails
  <2>1. Store!Remembers'
    BY <1>3 DEF Store!PowerFails, Store!Finish, Store!Remembers
  <2> QED
    BY <1>3, <2>1, StoreRestarts DEF Store!StoreInv
<1> QED
  BY <1>1, <1>2, <1>3 DEF Store!StoreNext

LEMMA StoreBegins == ASSUME Store!StoreInit, MaxOps \in Nat PROVE Store!StoreInv
<1> DEFINE vis == x1  dur == x2  mem == x14
<1>1. \A p \in Pkgs : vis.packages[p] = Store!Absent /\ dur = vis /\ mem = vis
  BY DEF Store!StoreInit
<1>2. Store!Named(Store!Absent) = {}
  BY DEF Store!Named, Store!Absent
<1>3. Store!Coming = {} /\ Store!Selected(vis) = {}
  BY <1>1, <1>2, SelectedAre DEF Store!Coming, Store!StoreInit
<1>4. vis \in Store!Indexes /\ Store!Absent \in Store!Records
  BY DEF Store!StoreInit, Store!Indexes, Store!Absent, Store!Records, Store!NoGen
<1>5. Store!DiskHolds
  BY <1>1, <1>2, <1>3 DEF Store!DiskHolds, Store!OwnersAreTrue, Store!GenerationsStay,
     Store!RuntimesStay, Store!Referenced, Store!Coming
<1>6. Store!InvocationHolds
  BY <1>1, <1>3, <1>4 DEF Store!StoreInit, Store!InvocationHolds, Store!StoreTypes,
     Store!IndexIsRead, Store!FreshIsNew,
     Store!StagedIsReady, Store!AnswerIsKept, Store!Changes, Store!Reads, Store!NoGen
<1>7. Store!Remembers
  BY DEF Store!StoreInit, Store!Remembers
<1> QED
  BY <1>5, <1>6, <1>7 DEF Store!StoreInv, Store!StoreHolds

LEMMA StoreAnswers == Store!StoreInv => Store!GenerationsStay /\ Store!RuntimesStay /\
Store!AnswerIsTrue
BY DEF Store!StoreInv, Store!StoreHolds, Store!DiskHolds, Store!InvocationHolds, Store!AnswerIsKept,
   Store!Remembers, Store!AnswerIsTrue

StorePart == part = "store" => Store!StoreInv

(* Whatever is installed, rolled back and removed, and wherever the process is      *)
(* killed, a write fails or the power goes: every generation is there that the      *)
(* index names, or that an index names which a power failure would bring back.  So  *)
(* are their runtimes, through the failed sync of the index and the power failure,  *)
(* until an invocation begins while an older index can still come back: from there  *)
(* on those of the index that is read, until that power failure.  What an           *)
(* invocation claims is on the medium, and one that denies a change has made none   *)
(* (manager.py).                                                                    *)
THEOREM PortsStay == Spec => []PortsHold
<1>1. Init => StorePart
  BY StoreBegins, StoreAssumption DEF Init, StorePart
<1>2. StorePart /\ [Next]_mcVars => StorePart'
  BY OwnSteps, StoreInductive, StoreAssumption DEF StorePart
<1>3. StorePart => PortsHold
  BY StoreAnswers DEF StorePart, PortsHold
<1> QED
  BY <1>1, <1>2, <1>3, PTL DEF Spec

-----------------------------------------------------------------------------
(* The Card Agent: the proofs of its own module, with one planned write and the  *)
(* peers as its connections.  CardProofs instantiates CardAgent under a name of   *)
(* its own, so the definitions that the two names share are first shown equal.    *)

CardProofs == INSTANCE CardAgentProofs WITH
  Conns <- Peers, Plan <- Single, None <- Nobody,
  server <- x1, handlers <- x2, stopping <- x3, reserved <- x4, active <- x5,
  consumed <- x6, verified <- x7, lock <- x8, claim <- x9, pc <- x10, cmd <- x11,
  op <- x12, result <- x13, mounted <- x14, card <- x15, soft <- x16, status <- x17,
  kept <- x18, receipt <- x19

LEMMA SameData ==
    /\ Agent!Ops = CardProofs!Ops /\ Agent!Partitions = CardProofs!Partitions
    /\ Agent!Images = CardProofs!Images
    /\ Agent!HandlerSteps = CardProofs!HandlerSteps
BY DEF Agent!Ops, CardProofs!Ops, Agent!Partitions, CardProofs!Partitions, Agent!Images,
   CardProofs!Images, Agent!HandlerSteps, CardProofs!HandlerSteps, Agent!Writing,
   CardProofs!Writing, Agent!Evidencing, CardProofs!Evidencing

LEMMA SameHandler ==
    ASSUME NEW c \in Peers
    PROVE  Agent!Handler(c) <=> CardProofs!Handler(c)
<1> USE DEF Agent!session, CardProofs!session, Agent!medium, CardProofs!medium, Agent!evidence,
            CardProofs!evidence, Agent!Goto, CardProofs!Goto, Agent!Fail, CardProofs!Fail,
            Agent!Finishes, CardProofs!Finishes, Agent!Target, CardProofs!Target, Agent!Source,
            CardProofs!Source, Agent!Publish, CardProofs!Publish, Agent!Ops, CardProofs!Ops,
            Agent!Partitions, CardProofs!Partitions, Agent!Images, CardProofs!Images
<1>1. Agent!Request(c) <=> CardProofs!Request(c)
  BY DEF Agent!Request, CardProofs!Request
<1>2. Agent!StopReply(c) <=> CardProofs!StopReply(c)
  BY DEF Agent!StopReply, CardProofs!StopReply
<1>3. Agent!TryLock(c) <=> CardProofs!TryLock(c)
  BY DEF Agent!TryLock, CardProofs!TryLock
<1>4. Agent!RunRead(c) <=> CardProofs!RunRead(c)
  BY DEF Agent!RunRead, CardProofs!RunRead
<1>5. Agent!RunClone(c) <=> CardProofs!RunClone(c)
  BY DEF Agent!RunClone, CardProofs!RunClone
<1>6. Agent!RunMount(c) <=> CardProofs!RunMount(c)
  BY DEF Agent!RunMount, CardProofs!RunMount
<1>7. Agent!Reserve(c) <=> CardProofs!Reserve(c)
  BY DEF Agent!Reserve, CardProofs!Reserve
<1>8. Agent!FirstCheck(c) <=> CardProofs!FirstCheck(c)
  BY DEF Agent!FirstCheck, CardProofs!FirstCheck
<1>9. Agent!Claim(c) <=> CardProofs!Claim(c)
  BY DEF Agent!Claim, CardProofs!Claim
<1>10. Agent!Pin(c) <=> CardProofs!Pin(c)
  BY DEF Agent!Pin, CardProofs!Pin
<1>11. Agent!Baseline(c) <=> CardProofs!Baseline(c)
  BY DEF Agent!Baseline, CardProofs!Baseline
<1>12. Agent!Stage(c) <=> CardProofs!Stage(c)
  BY DEF Agent!Stage, CardProofs!Stage
<1>13. Agent!Promote(c) <=> CardProofs!Promote(c)
  BY DEF Agent!Promote, CardProofs!Promote
<1>14. Agent!CreateStatus(c) <=> CardProofs!CreateStatus(c)
  BY DEF Agent!CreateStatus, CardProofs!CreateStatus
<1>15. Agent!Copy(c) <=> CardProofs!Copy(c)
  BY DEF Agent!Copy, CardProofs!Copy
<1>16. Agent!Sync(c) <=> CardProofs!Sync(c)
  BY DEF Agent!Sync, CardProofs!Sync
<1>17. Agent!Readback(c) <=> CardProofs!Readback(c)
  BY DEF Agent!Readback, CardProofs!Readback
<1>18. Agent!Recheck(c) <=> CardProofs!Recheck(c)
  BY DEF Agent!Recheck, CardProofs!Recheck
<1>19. Agent!MarkVerified(c) <=> CardProofs!MarkVerified(c)
  BY DEF Agent!MarkVerified, CardProofs!MarkVerified
<1>20. Agent!CompleteStatus(c) <=> CardProofs!CompleteStatus(c)
  BY DEF Agent!CompleteStatus, CardProofs!CompleteStatus
<1>21. Agent!WriteReceipt(c) <=> CardProofs!WriteReceipt(c)
  BY DEF Agent!WriteReceipt, CardProofs!WriteReceipt
<1>22. Agent!Finish(c) <=> CardProofs!Finish(c)
  BY DEF Agent!Finish, CardProofs!Finish
<1>23. Agent!Unlock(c) <=> CardProofs!Unlock(c)
  BY DEF Agent!Unlock, CardProofs!Unlock
<1>24. Agent!Respond(c) <=> CardProofs!Respond(c)
  BY DEF Agent!Respond, CardProofs!Respond
<1>25. Agent!Catch(c) <=> CardProofs!Catch(c)
  BY DEF Agent!Catch, CardProofs!Catch
<1>26. Agent!Leave(c) <=> CardProofs!Leave(c)
  BY DEF Agent!Leave, CardProofs!Leave
<1> QED
  BY <1>1, <1>2, <1>3, <1>4, <1>5, <1>6, <1>7, <1>8, <1>9, <1>10, <1>11, <1>12, <1>13, <1>14,
     <1>15, <1>16, <1>17, <1>18, <1>19, <1>20, <1>21, <1>22, <1>23, <1>24, <1>25,
     <1>26 DEF Agent!Handler, CardProofs!Handler, Agent!Write, CardProofs!Write

LEMMA SameStep == [Agent!Next]_(Agent!vars) <=> [CardProofs!Next]_(CardProofs!vars)
<1>1. Agent!Server <=> CardProofs!Server
  BY DEF Agent!Server, CardProofs!Server, Agent!CheckStop, CardProofs!CheckStop,
     Agent!PollTimeout, CardProofs!PollTimeout, Agent!PollFails, CardProofs!PollFails,
     Agent!Exit, CardProofs!Exit, Agent!Accept, CardProofs!Accept, Agent!session,
     CardProofs!session, Agent!medium, CardProofs!medium, Agent!evidence, CardProofs!evidence
<1>2. Agent!Signal <=> CardProofs!Signal
  BY DEF Agent!Signal, CardProofs!Signal, Agent!Running, CardProofs!Running, Agent!session,
     CardProofs!session, Agent!medium, CardProofs!medium, Agent!evidence, CardProofs!evidence
<1>3. Agent!Automount <=> CardProofs!Automount
  BY DEF Agent!Automount, CardProofs!Automount, Agent!Running, CardProofs!Running,
     Agent!session, CardProofs!session, Agent!medium, CardProofs!medium, Agent!evidence,
     CardProofs!evidence
<1>4. Agent!PowerLoss <=> CardProofs!PowerLoss
  BY DEF Agent!PowerLoss, CardProofs!PowerLoss, Agent!Running, CardProofs!Running, Agent!Ops,
     CardProofs!Ops, Agent!Partitions, CardProofs!Partitions
<1>5. (UNCHANGED Agent!vars) <=> (UNCHANGED CardProofs!vars)
  BY DEF Agent!vars, CardProofs!vars, Agent!session, CardProofs!session, Agent!medium,
     CardProofs!medium, Agent!evidence, CardProofs!evidence
<1>6. Agent!Ended <=> CardProofs!Ended
  BY <1>5 DEF Agent!Ended, CardProofs!Ended, Agent!Running, CardProofs!Running
<1>7. Agent!Running <=> CardProofs!Running
  BY DEF Agent!Running, CardProofs!Running
<1>8. Agent!Next <=> CardProofs!Next
  BY <1>1, <1>2, <1>3, <1>4, <1>6, <1>7, SameHandler DEF Agent!Next, CardProofs!Next
<1> QED
  BY <1>5, <1>8

LEMMA SameInit == Agent!Init <=> CardProofs!Init
BY DEF Agent!Init, CardProofs!Init, Agent!Partitions, CardProofs!Partitions, Agent!Images,
   CardProofs!Images, Agent!Ops, CardProofs!Ops

LEMMA SameAnswers ==
    (Agent!AnswerIsTrue <=> CardProofs!AnswerIsTrue) /\ (Agent!TypeOK <=> CardProofs!TypeOK)
<1>1. Agent!AnswerIsTrue <=> CardProofs!AnswerIsTrue
  BY DEF Agent!AnswerIsTrue, CardProofs!AnswerIsTrue, Agent!Holds, CardProofs!Holds,
     Agent!Overtaken, CardProofs!Overtaken, Agent!Ops, CardProofs!Ops
<1>2. Agent!Cardinality(Peers) = CardProofs!Cardinality(Peers)
  BY DEF Agent!Cardinality, CardProofs!Cardinality
<1>3. Agent!TypeOK <=> CardProofs!TypeOK
  BY <1>2 DEF Agent!TypeOK, CardProofs!TypeOK, Agent!Ops, CardProofs!Ops, Agent!Partitions,
     CardProofs!Partitions, Agent!Images, CardProofs!Images, Agent!CardCommands,
     CardProofs!CardCommands, Agent!Results, CardProofs!Results, Agent!Statuses,
     CardProofs!Statuses, Agent!Writing, CardProofs!Writing, Agent!Evidencing,
     CardProofs!Evidencing, Agent!HandlerSteps, CardProofs!HandlerSteps
<1> QED BY <1>1, <1>3

LEMMA SinglePlan == CardProofs!PlanAssumption
BY AgentAssumption
   DEF CardProofs!PlanAssumption, Single, CardProofs!Ops, CardProofs!Images,
       CardProofs!IsFiniteSet, IsFiniteSet

AgentPart == part = "agent" => CardProofs!AgentInv /\ CardProofs!WriterInv

(* What the client of a write is told agrees with the card and the evidence files,  *)
(* however many clients there are and whenever they, a signal or the loss of power  *)
(* come (UnixServer.swift, CardDevice.swift).                                       *)
THEOREM ClientsAreToldTheTruth == Spec => []AnswerIsTrue
<1>1. Init => AgentPart
  <2>1. part = "agent" /\ Agent!Init => CardProofs!AgentInv /\ CardProofs!WriterInv
    BY SinglePlan, SameInit, CardProofs!AgentInit, CardProofs!WriterInit
       DEF CardProofs!PlanAssumption
  <2> QED BY <2>1 DEF Init, AgentPart
<1>2. AgentPart /\ [Next]_mcVars => AgentPart'
  <2>1. CardProofs!AgentInv /\ CardProofs!WriterInv /\ [Agent!Next]_(Agent!vars)
          => (CardProofs!AgentInv /\ CardProofs!WriterInv)'
    BY SinglePlan, SameStep, CardProofs!AgentInductive, CardProofs!WriterInductive
       DEF CardProofs!PlanAssumption
  <2> QED BY <2>1, OwnSteps DEF AgentPart
<1>3. AgentPart => AnswerIsTrue
  <2>1. CardProofs!AgentInv => Agent!AnswerIsTrue /\ Agent!TypeOK
    BY SinglePlan, SameAnswers, CardProofs!TruthIsTold
       DEF CardProofs!PlanAssumption, CardProofs!AgentInv
  <2> QED BY <2>1 DEF AgentPart, AnswerIsTrue
<1> QED
  BY <1>1, <1>2, <1>3, PTL DEF Spec

-----------------------------------------------------------------------------
(* What no step replaces. *)

(* A fetch that removes an export, or takes a picture back, is the one that owns   *)
(* the name: it linked the picture it exported.                                    *)
LEMMA PicturesStay ==
    ASSUME Fetch!FetchInv, [Fetch!FetchNext]_(Fetch!fetchVars)
    PROVE  Fetch!NoPictureLost /\ Fetch!NothingReplaced
<1> USE DEF Fetch!FetchInv, Fetch!FetchTypes, Fetch!NoPictureLost, Fetch!NothingReplaced
<1>1. CASE UNCHANGED Fetch!fetchVars
  BY <1>1 DEF Fetch!fetchVars
<1>2. ASSUME NEW f \in Peers, Fetch!Capture(f) \/ Fetch!CaptureFails(f)
      PROVE  Fetch!NoPictureLost /\ Fetch!NothingReplaced
  BY <1>2 DEF Fetch!Capture, Fetch!CaptureFails
<1>3. ASSUME NEW f \in Peers, Fetch!Download(f) \/ Fetch!CheckTemporary(f) \/ Fetch!Recheck(f)
      PROVE  Fetch!NoPictureLost /\ Fetch!NothingReplaced
  BY <1>3 DEF Fetch!Download, Fetch!CheckTemporary, Fetch!Recheck
<1>4. ASSUME NEW f \in Peers, Fetch!LinkFinal(f)
      PROVE  Fetch!NoPictureLost /\ Fetch!NothingReplaced
  BY <1>4 DEF Fetch!LinkFinal
<1>5. ASSUME NEW f \in Peers, Fetch!FetchFails(f)
      PROVE  Fetch!NoPictureLost /\ Fetch!NothingReplaced
  BY <1>5 DEF Fetch!FetchFails, Fetch!Fail, Fetch!ExportIsOwned, Fetch!Busy
<1>6. ASSUME NEW f \in Peers, Fetch!RemoteRemove(f)
      PROVE  Fetch!NoPictureLost /\ Fetch!NothingReplaced
  BY <1>6 DEF Fetch!RemoteRemove, Fetch!Move, Fetch!ExportIsOwned, Fetch!LinkedIsChecked,
     Fetch!Busy
<1> QED
  BY <1>1, <1>2, <1>3, <1>4, <1>5, <1>6 DEF Fetch!FetchNext

(* Whichever program runs, whatever fails, and however many parties work at once:   *)
(* an upload never replaces a file, a fetched picture is neither lost nor replaced, *)
(* and settings that a game saved stay (transfer_server.py, fetch-screen.py,        *)
(* local_port.py).                                                                  *)
THEOREM NothingIsReplaced == Spec => NothingReplaced
<1>1. Init => FetchPart /\ SessionPart
  BY FetchBegins, SessionBegins DEF Init, FetchPart, SessionPart
<1>2. FetchPart /\ SessionPart /\ [Next]_mcVars => (FetchPart /\ SessionPart)'
  BY OwnSteps, FetchInductive, SessionInductive DEF FetchPart, SessionPart
<1>3. FetchPart /\ SessionPart /\ [Next]_mcVars =>
        [/\ part = "share" => Share!NeverReplaced
         /\ part = "fetch" => Fetch!NoPictureLost /\ Fetch!NothingReplaced
         /\ part = "session" => Session!SettingsStay]_mcVars
  BY OwnSteps, ShareReplacesNothing, PicturesStay, SettingsKept DEF FetchPart, SessionPart
<1> QED
  BY <1>1, <1>2, <1>3, PTL DEF Spec, NothingReplaced
=============================================================================
