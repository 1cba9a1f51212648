------------------------ MODULE InputOwnershipProofs ------------------------
(***************************************************************************)
(* The ownership of the pad keeps what InputOwnership states of it, for    *)
(* any applications, slots and bounds.                                     *)
(*                                                                         *)
(* The invariant has three parts.  SessionInv is what the session, its     *)
(* tasks and the channel hold: every handler of the session or of the      *)
(* desktop leaves (Leaves) a session that synchronize() then settles       *)
(* (Settles), so one lemma, SettlesKeep, carries it through all of them,   *)
(* and the router's steps keep it because what they say (Follows) is no    *)
(* Ack of another Mode and no second answer.  PadInv is what the router    *)
(* and the presses hold: a tick hands over only presses that the owner may *)
(* have (TickHands, PartyReads).  Bounded says how the session can fail.   *)
(***************************************************************************)
EXTENDS InputOwnership, SequenceTheorems, FiniteSetTheorems, TLAPS

-----------------------------------------------------------------------------
(* What a queue of messages holds. *)

(* Two queues joined hold what they held. *)
LEMMA Joined ==
    ASSUME NEW S, NEW q \in Seq(S), NEW r \in Seq(S)
    PROVE  /\ q \o r \in Seq(S) /\ Sent(q \o r) = Sent(q) \cup Sent(r)
           /\ \A T : Has(q \o r, T) <=> Has(q, T) \/ Has(r, T)
<1>1. /\ q \o r \in Seq(S) /\ Len(q \o r) = Len(q) + Len(r)
      /\ \A i \in 1..(Len(q) + Len(r)) : (q \o r)[i] = IF i <= Len(q) THEN q[i] ELSE r[i - Len(q)]
  BY ConcatProperties
<1>2. DOMAIN q = 1..Len(q) /\ DOMAIN r = 1..Len(r) /\ Len(q) \in Nat /\ Len(r) \in Nat
      /\ DOMAIN (q \o r) = 1..(Len(q) + Len(r))
  BY <1>1, LenProperties
<1>3. Sent(q) \cup Sent(r) \subseteq Sent(q \o r)
  <2>1. \A i \in DOMAIN q : q[i] = (q \o r)[i] /\ i \in DOMAIN (q \o r)
    BY <1>1, <1>2
  <2>2. \A i \in DOMAIN r : r[i] = (q \o r)[i + Len(q)] /\ i + Len(q) \in DOMAIN (q \o r)
    BY <1>1, <1>2
  <2> QED BY <2>1, <2>2 DEF Sent
<1>4. Sent(q \o r) \subseteq Sent(q) \cup Sent(r)
  <2>1. \A i \in DOMAIN (q \o r) : (i \in DOMAIN q /\ (q \o r)[i] = q[i])
             \/ (i - Len(q) \in DOMAIN r /\ (q \o r)[i] = r[i - Len(q)])
    BY <1>1, <1>2
  <2> QED BY <2>1 DEF Sent
<1> QED
  BY <1>1, <1>3, <1>4 DEF Has

(* ... and one message of a kind, when only one of them has it. *)
LEMMA JoinedOnce ==
    ASSUME NEW S, NEW q \in Seq(S), NEW r \in Seq(S), NEW T,
           Once(q, T), Once(r, T), ~(Has(q, T) /\ Has(r, T))
    PROVE  Once(q \o r, T)
<1>1. /\ \A i \in 1..(Len(q) + Len(r)) : (q \o r)[i] = IF i <= Len(q) THEN q[i] ELSE r[i - Len(q)]
      /\ DOMAIN (q \o r) = 1..(Len(q) + Len(r))
  BY ConcatProperties, LenProperties
<1>2. DOMAIN q = 1..Len(q) /\ DOMAIN r = 1..Len(r) /\ Len(q) \in Nat /\ Len(r) \in Nat
  BY LenProperties
<1> SUFFICES ASSUME NEW i \in DOMAIN (q \o r), NEW j \in DOMAIN (q \o r),
                    (q \o r)[i].type \in T, (q \o r)[j].type \in T
             PROVE  i = j
  BY DEF Once
<1>3. CASE i <= Len(q) /\ j <= Len(q)
  BY <1>1, <1>2, <1>3 DEF Once
<1>4. CASE i > Len(q) /\ j > Len(q)
  <2>1. i - Len(q) \in DOMAIN r /\ j - Len(q) \in DOMAIN r
    BY <1>1, <1>2, <1>4
  <2>2. r[i - Len(q)].type \in T /\ r[j - Len(q)].type \in T
    BY <1>1, <1>2, <1>4
  <2>3. i - Len(q) = j - Len(q)
    BY <2>1, <2>2 DEF Once
  <2> QED BY <2>3, <1>1, <1>2
<1>5. ASSUME NEW k \in DOMAIN (q \o r), NEW l \in DOMAIN (q \o r), k <= Len(q), l > Len(q),
             (q \o r)[k].type \in T, (q \o r)[l].type \in T
      PROVE  FALSE
  <2>1. k \in DOMAIN q /\ l - Len(q) \in DOMAIN r
    BY <1>1, <1>2, <1>5
  <2>2. q[k].type \in T /\ r[l - Len(q)].type \in T
    BY <1>1, <1>2, <1>5
  <2> QED BY <2>1, <2>2 DEF Has, Sent
<1> QED
  BY <1>1, <1>2, <1>3, <1>4, <1>5

(* The head of a queue and what is left of it. *)
LEMMA Rest ==
    ASSUME NEW S, NEW q \in Seq(S), q # <<>>
    PROVE  /\ Tail(q) \in Seq(S) /\ Head(q) \in S /\ Head(q) \in Sent(q)
           /\ Sent(q) = Sent(Tail(q)) \cup {Head(q)}
           /\ \A T : Has(q, T) <=> Has(Tail(q), T) \/ Head(q).type \in T
           /\ \A T : Once(q, T) => /\ Once(Tail(q), T)
                                   /\ Head(q).type \in T => ~Has(Tail(q), T)
<1>1. /\ Tail(q) \in Seq(S) /\ Head(q) \in S /\ Head(q) = q[1]
      /\ Len(q) \in Nat \ {0} /\ DOMAIN q = 1..Len(q) /\ DOMAIN Tail(q) = 1..(Len(q) - 1)
      /\ \A i \in 1..(Len(q) - 1) : Tail(q)[i] = q[i + 1]
  BY HeadTailProperties, LenProperties, EmptySeq
<1>2. Sent(q) = Sent(Tail(q)) \cup {Head(q)}
  <2>1. \A i \in DOMAIN q : i = 1 \/ (i - 1 \in DOMAIN Tail(q) /\ Tail(q)[i - 1] = q[i])
    BY <1>1
  <2>2. \A i \in DOMAIN Tail(q) : Tail(q)[i] = q[i + 1] /\ i + 1 \in DOMAIN q
    BY <1>1
  <2>3. 1 \in DOMAIN q
    BY <1>1
  <2>4. Sent(q) \subseteq Sent(Tail(q)) \cup {Head(q)}
    <3> SUFFICES ASSUME NEW i \in DOMAIN q
                 PROVE  q[i] \in Sent(Tail(q)) \cup {Head(q)}
      BY DEF Sent
    <3>1. CASE i = 1
      BY <1>1, <3>1
    <3>2. CASE i # 1
      BY <2>1, <3>2 DEF Sent
    <3> QED BY <3>1, <3>2
  <2>5. Sent(Tail(q)) \subseteq Sent(q)
    BY <2>2 DEF Sent
  <2>6. Head(q) \in Sent(q)
    BY <1>1, <2>3 DEF Sent
  <2> QED BY <2>4, <2>5, <2>6
<1>3. ASSUME NEW T, Once(q, T)
      PROVE  Once(Tail(q), T) /\ (Head(q).type \in T => ~Has(Tail(q), T))
  <2>1. Once(Tail(q), T)
    <3> SUFFICES ASSUME NEW i \in DOMAIN Tail(q), NEW j \in DOMAIN Tail(q),
                        Tail(q)[i].type \in T, Tail(q)[j].type \in T
                 PROVE  i = j
      BY DEF Once
    <3>1. i + 1 \in DOMAIN q /\ j + 1 \in DOMAIN q /\ q[i + 1].type \in T /\ q[j + 1].type \in T
      BY <1>1
    <3>2. i + 1 = j + 1
      BY <3>1, <1>3 DEF Once
    <3> QED BY <3>2, <1>1
  <2>2. ASSUME Head(q).type \in T, NEW i \in DOMAIN Tail(q), Tail(q)[i].type \in T
        PROVE  FALSE
    <3>1. i + 1 \in DOMAIN q /\ q[i + 1].type \in T /\ 1 \in DOMAIN q /\ q[1].type \in T
      BY <1>1, <2>2
    <3>2. i + 1 = 1
      BY <3>1, <1>3 DEF Once
    <3> QED BY <3>2, <1>1
  <2> QED BY <2>1, <2>2 DEF Has, Sent
<1> QED
  BY <1>1, <1>2, <1>3 DEF Has

(* The empty queue. *)
LEMMA Nothing ==
    /\ Sent(<<>>) = {} /\ \A S : <<>> \in Seq(S)
    /\ \A T : ~Has(<<>>, T) /\ Once(<<>>, T)
BY DEF Sent, Has, Once

(* A queue of one message. *)
LEMMA OneMessage ==
    ASSUME NEW m
    PROVE  /\ Sent(<<m>>) = {m} /\ \A S : m \in S => <<m>> \in Seq(S)
           /\ \A T : (Has(<<m>>, T) <=> m.type \in T) /\ Once(<<m>>, T)
<1>1. DOMAIN <<m>> = {1} /\ <<m>>[1] = m
  OBVIOUS
<1>2. Sent(<<m>>) = {m}
  BY <1>1 DEF Sent
<1> QED
  BY <1>1, <1>2 DEF Has, Once


(* A queue with one message more. *)
LEMMA Appended ==
    ASSUME NEW S, NEW q \in Seq(S), NEW m \in S
    PROVE  /\ q \o <<m>> \in Seq(S) /\ Append(q, m) = q \o <<m>>
           /\ Sent(q \o <<m>>) = Sent(q) \cup {m}
           /\ \A T : Has(q \o <<m>>, T) <=> Has(q, T) \/ m.type \in T
           /\ \A T : Once(q, T) /\ (m.type \in T => ~Has(q, T)) => Once(q \o <<m>>, T)
<1>1. <<m>> \in Seq(S) /\ Append(q, m) = q \o <<m>>
  BY AppendIsConcat
<1>2. /\ Sent(<<m>>) = {m}
      /\ \A T : (Has(<<m>>, T) <=> m.type \in T) /\ Once(<<m>>, T)
  BY OneMessage
<1>3. /\ q \o <<m>> \in Seq(S) /\ Sent(q \o <<m>>) = Sent(q) \cup Sent(<<m>>)
      /\ \A T : Has(q \o <<m>>, T) <=> Has(q, T) \/ Has(<<m>>, T)
  BY <1>1, Joined
<1>4. ASSUME NEW T, Once(q, T), m.type \in T => ~Has(q, T)
      PROVE  Once(q \o <<m>>, T)
  <2>1. Once(<<m>>, T) /\ ~(Has(q, T) /\ Has(<<m>>, T))
    BY <1>2, <1>4
  <2> QED BY <1>1, <1>4, <2>1, JoinedOnce
<1> QED
  BY <1>1, <1>2, <1>3, <1>4

(* A command appended with a number above those of the others. *)
LEMMA IncreasingAppended ==
    ASSUME NEW q \in Seq(Commands), NEW m \in Commands, NEW low \in Nat, NEW high \in Nat,
           Increasing(q, low, high), low <= high, m.seq = high + 1
    PROVE  Increasing(q \o <<m>>, low, high + 1)
<1>1. /\ \A i \in 1..(Len(q) + 1) : (q \o <<m>>)[i] = IF i <= Len(q) THEN q[i] ELSE m
      /\ DOMAIN (q \o <<m>>) = 1..(Len(q) + 1) /\ DOMAIN q = 1..Len(q) /\ Len(q) \in Nat
  <2>1. <<m>> \in Seq(Commands) /\ Len(<<m>>) = 1 /\ <<m>>[1] = m
    OBVIOUS
  <2>2. /\ q \o <<m>> \in Seq(Commands) /\ Len(q \o <<m>>) = Len(q) + 1
        /\ \A i \in 1..(Len(q) + 1) :
             (q \o <<m>>)[i] = IF i <= Len(q) THEN q[i] ELSE <<m>>[i - Len(q)]
    BY <2>1, ConcatProperties
  <2>3. Len(q) \in Nat /\ DOMAIN q = 1..Len(q) /\ DOMAIN (q \o <<m>>) = 1..(Len(q) + 1)
    BY <2>2, LenProperties
  <2>4. \A i \in 1..(Len(q) + 1) : ~(i <= Len(q)) => i - Len(q) = 1
    BY <2>3
  <2> QED BY <2>1, <2>2, <2>3, <2>4
<1>2. \A i \in DOMAIN q : q[i].seq \in (low + 1)..high
  BY DEF Increasing
<1>3. \A i \in 1..(Len(q) + 1) : (q \o <<m>>)[i].seq \in (low + 1)..(high + 1)
  BY <1>1, <1>2
<1>4. \A i, j \in 1..(Len(q) + 1) : i < j => (q \o <<m>>)[i].seq < (q \o <<m>>)[j].seq
  <2> SUFFICES ASSUME NEW i \in 1..(Len(q) + 1), NEW j \in 1..(Len(q) + 1), i < j
               PROVE  (q \o <<m>>)[i].seq < (q \o <<m>>)[j].seq
    OBVIOUS
  <2>1. i \in DOMAIN q /\ (q \o <<m>>)[i] = q[i] /\ q[i].seq \in (low + 1)..high
    BY <1>1, <1>2
  <2>2. CASE j <= Len(q)
    BY <1>1, <2>1, <2>2 DEF Increasing
  <2>3. CASE j > Len(q)
    BY <1>1, <2>1, <2>3
  <2> QED BY <2>2, <2>3, <1>1
<1> QED
  BY <1>1, <1>3, <1>4 DEF Increasing

(* The next command has a number of its own; the rest have larger ones. *)
LEMMA IncreasingTaken ==
    ASSUME NEW q \in Seq(Commands), NEW low \in Nat, NEW high \in Nat,
           Increasing(q, low, high), q # <<>>
    PROVE  /\ Increasing(Tail(q), Head(q).seq, high)
           /\ Head(q).seq \in (low + 1)..high
<1>1. /\ Head(q) = q[1] /\ Len(q) \in Nat \ {0} /\ DOMAIN q = 1..Len(q)
      /\ DOMAIN Tail(q) = 1..(Len(q) - 1)
      /\ \A i \in 1..(Len(q) - 1) : Tail(q)[i] = q[i + 1]
  BY HeadTailProperties, LenProperties, EmptySeq
<1>2. \A i \in DOMAIN q : q[i].seq \in (low + 1)..high
  BY DEF Increasing
<1>3. \A i \in DOMAIN Tail(q) : i + 1 \in DOMAIN q /\ 1 \in DOMAIN q /\ 1 < i + 1
                              /\ Tail(q)[i] = q[i + 1]
  BY <1>1
<1>4. \A i \in DOMAIN Tail(q) : q[1].seq < Tail(q)[i].seq
  BY <1>3 DEF Increasing
<1>5. 1 \in DOMAIN q
  BY <1>1
<1>6. \A i \in DOMAIN Tail(q) : Tail(q)[i].seq \in (q[1].seq + 1)..high
  <2> TAKE i \in DOMAIN Tail(q)
  <2>1. q[1].seq < q[i + 1].seq /\ Tail(q)[i] = q[i + 1]
    BY <1>3, <1>4
  <2>2. q[1].seq \in (low + 1)..high /\ q[i + 1].seq \in (low + 1)..high
    BY <1>2, <1>3, <1>5
  <2> QED BY <2>1, <2>2
<1>7. \A i, j \in DOMAIN Tail(q) : i < j => Tail(q)[i].seq < Tail(q)[j].seq
  <2> TAKE i, j \in DOMAIN Tail(q)
  <2>1. i < j => i + 1 < j + 1
    BY <1>1
  <2> QED BY <1>3, <2>1 DEF Increasing
<1> QED
  BY <1>1, <1>2, <1>5, <1>6, <1>7 DEF Increasing

-----------------------------------------------------------------------------
(* The session proposes a scene and selects an owner. *)

WantedMode(want) == IF want.game = None \/ want.panel THEN "ui" ELSE "game"

(* A proposal never lifts a privacy that is wanted (requestPolicy). *)
LEMMA Proposed ==
    ASSUME NEW agreed \in Scenes, NEW want \in Scenes
    PROVE  /\ Proposal(agreed, want) \in Scenes
           /\ agreed.privacy /\ want.privacy => Proposal(agreed, want).privacy
<1>1. CASE agreed.privacy # want.privacy
  BY <1>1 DEF Proposal, Scenes
<1>2. CASE agreed.privacy = want.privacy /\ agreed.game # want.game
  BY <1>2 DEF Proposal, Scenes
<1>3. CASE agreed.privacy = want.privacy /\ agreed.game = want.game
  BY <1>3 DEF Proposal, Scenes
<1> QED
  BY <1>1, <1>2, <1>3

(* What selectInput changes. *)
LEMMA Selected ==
    ASSUME NEW s \in SessionType, NEW want \in Scenes, NEW sl \in Slots,
           s.modeSequence <= s.sequence
    PROVE  LET t == SelectInput(s, want, sl) IN
           /\ t \in SessionType
           /\ t.mode = s.mode /\ t.slot = s.slot /\ t.remote = s.remote
           /\ t.agreed = s.agreed /\ t.asked = s.asked
           /\ \/ t = s /\ (s.requested # None \/ Owned(s, WantedMode(want), sl))
              \/ /\ s.requested = None /\ t.requested = WantedMode(want) /\ t.wanted = sl
                 /\ t.sequence = s.sequence + 1 /\ t.modeSequence = t.sequence
<1> DEFINE t == SelectInput(s, want, sl)
           m == WantedMode(want)
<1>1. m \in Modes
  BY DEF WantedMode, Modes
<1>2. CASE InFlight(s) \/ Owned(s, m, sl)
  BY <1>2 DEF SelectInput, WantedMode, InFlight
<1>3. CASE ~(InFlight(s) \/ Owned(s, m, sl))
  <2> HIDE DEF m
  <2>1. t = [s EXCEPT !.requested = m, !.wanted = sl, !.sequence = @ + 1,
                      !.modeSequence = s.sequence + 1, !.keys = 0, !.wait = FALSE]
    BY <1>3 DEF SelectInput, WantedMode, m
  <2>2. t \in SessionType
    <3>1. m \in Modes \cup {None} /\ 0 \in Samples /\ s.sequence + 1 \in Nat
      BY <1>1 DEF Samples, SessionType
    <3> QED BY <2>1, <3>1 DEF SessionType
  <2>3. /\ t.mode = s.mode /\ t.slot = s.slot /\ t.remote = s.remote
        /\ t.agreed = s.agreed /\ t.asked = s.asked
        /\ t.requested = m /\ t.wanted = sl
        /\ t.sequence = s.sequence + 1 /\ t.modeSequence = s.sequence + 1
    BY <2>1 DEF SessionType
  <2> QED BY <1>3, <2>2, <2>3 DEF InFlight, m
<1> QED
  BY <1>2, <1>3

(* What requestPolicy changes: it asks, or it selects, or it waits. *)
LEMMA Requested ==
    ASSUME NEW s \in SessionType, NEW want \in Scenes, NEW sl \in Slots,
           s.modeSequence <= s.sequence, s.ready => s.requested = None
    PROVE  LET t == RequestPolicy(s, want, sl) IN
           /\ t \in SessionType
           /\ t.mode = s.mode /\ t.slot = s.slot /\ t.remote = s.remote /\ t.agreed = s.agreed
           /\ \/ t.asked = s.asked
              \/ /\ s.asked = None /\ t.asked = Proposal(s.agreed, want)
                 /\ t.ready => s.agreed.privacy # want.privacy
           /\ t.ready => t.requested = None
           /\ s.asked # None => t.ready = s.ready
           /\ t.ready /\ t.asked = None =>
                /\ s.agreed = want /\ t.mode = WantedMode(want) /\ t.slot = sl
           /\ \/ /\ t.modeSequence = s.modeSequence /\ t.sequence = s.sequence
                 /\ t.requested = s.requested /\ t.wanted = s.wanted
              \/ /\ t.modeSequence # s.modeSequence
                 /\ s.requested = None /\ t.requested = WantedMode(want) /\ t.wanted = sl
                 /\ t.sequence = s.sequence + 1 /\ t.modeSequence = t.sequence
<1> DEFINE t == RequestPolicy(s, want, sl)
<1>0. s.modeSequence \in Nat /\ s.sequence \in Nat
  BY DEF SessionType
<1>1. CASE s.asked # None
  BY <1>1 DEF RequestPolicy
<1>2. CASE s.asked = None /\ s.agreed # want
  <2>1. Proposal(s.agreed, want) \in Scenes
    BY Proposed DEF SessionType
  <2>2. t = [s EXCEPT !.asked = Proposal(s.agreed, want), !.ready = @ /\ Quiet(s, want)]
    BY <1>2 DEF RequestPolicy
  <2>3. (s.ready /\ Quiet(s, want)) \in BOOLEAN
    BY DEF Quiet
  <2>4. t \in SessionType
    BY <2>1, <2>2, <2>3 DEF SessionType
  <2>5. /\ t.mode = s.mode /\ t.slot = s.slot /\ t.remote = s.remote /\ t.agreed = s.agreed
        /\ t.requested = s.requested /\ t.wanted = s.wanted /\ t.sequence = s.sequence
        /\ t.modeSequence = s.modeSequence
        /\ t.asked = Proposal(s.agreed, want)
    BY <2>2 DEF SessionType
  <2>6. t.ready = (s.ready /\ Quiet(s, want))
    BY <2>2 DEF SessionType
  <2>8. Proposal(s.agreed, want) # None
    BY <2>1, SceneAssumption
  <2> QED BY <1>2, <2>4, <2>5, <2>6, <2>8 DEF Quiet
<1>3. CASE s.asked = None /\ s.agreed = want
  <2> DEFINE u == SelectInput(s, want, sl)
  <2>1. t = [u EXCEPT !.ready = (u.requested = None)]
    BY <1>3 DEF RequestPolicy
  <2>2. /\ u \in SessionType
        /\ u.mode = s.mode /\ u.slot = s.slot /\ u.remote = s.remote
        /\ u.agreed = s.agreed /\ u.asked = s.asked
        /\ \/ u = s /\ (s.requested # None \/ Owned(s, WantedMode(want), sl))
           \/ /\ s.requested = None /\ u.requested = WantedMode(want) /\ u.wanted = sl
              /\ u.sequence = s.sequence + 1 /\ u.modeSequence = u.sequence
    BY Selected
  <2> HIDE DEF u
  <2>3. t \in SessionType
    BY <2>1, <2>2 DEF SessionType
  <2>4. /\ t.mode = u.mode /\ t.slot = u.slot /\ t.remote = u.remote /\ t.agreed = u.agreed
        /\ t.requested = u.requested /\ t.wanted = u.wanted /\ t.sequence = u.sequence
        /\ t.modeSequence = u.modeSequence /\ t.asked = u.asked
    BY <2>1, <2>2 DEF SessionType
  <2>5. t.ready = (u.requested = None)
    BY <2>1, <2>2 DEF SessionType
  <2>6. WantedMode(want) # None
    BY OwnershipAssumption DEF WantedMode, Modes
  <2>7. CASE u = s /\ (s.requested # None \/ Owned(s, WantedMode(want), sl))
    BY <1>3, <2>2, <2>3, <2>4, <2>5, <2>7 DEF Owned
  <2>8. CASE /\ s.requested = None /\ u.requested = WantedMode(want) /\ u.wanted = sl
             /\ u.sequence = s.sequence + 1 /\ u.modeSequence = u.sequence
    <3>1. t.modeSequence # s.modeSequence
      BY <1>0, <2>4, <2>8
    <3>2. t.ready = FALSE
      BY <2>5, <2>6, <2>8
    <3>3. /\ t.requested = WantedMode(want) /\ t.wanted = sl
          /\ t.sequence = s.sequence + 1 /\ t.modeSequence = t.sequence
      BY <2>4, <2>8
    <3>4. /\ t.mode = s.mode /\ t.slot = s.slot /\ t.remote = s.remote /\ t.agreed = s.agreed
          /\ t.asked = s.asked
      BY <2>2, <2>4
    <3> QED BY <1>3, <2>3, <2>8, <3>1, <3>2, <3>3, <3>4
  <2> QED BY <2>2, <2>7, <2>8
<1> QED
  BY <1>1, <1>2, <1>3

-----------------------------------------------------------------------------
(* What is in flight fits, whatever is appended to it. *)

(* A cancellation on its way changes nothing of what the channel holds. *)
LEMMA CancelFits ==
    ASSUME NEW s \in SessionType, NEW q \in Seq(Commands), NEW r, NEW m, NEW sl, NEW rem,
           NEW low \in Nat, low <= s.sequence,
           Increasing(q, low, s.sequence), ModeFits(q, r, s, m, sl), InjectFits(q, r, s, rem)
    PROVE  LET t == [s EXCEPT !.sequence = @ + 1]
               n == q \o <<CancelInject(s.sequence + 1)>>
           IN  /\ t \in SessionType /\ n \in Seq(Commands)
               /\ Increasing(n, low, t.sequence)
               /\ ModeFits(n, r, t, m, sl) /\ InjectFits(n, r, t, rem)
               /\ \A c \in Sent(n) : c.type = "Mode" => c \in Sent(q)
<1> DEFINE t == [s EXCEPT !.sequence = @ + 1]
           c == CancelInject(s.sequence + 1)
           n == q \o <<c>>
<1>1. t \in SessionType
  BY DEF SessionType
<1>2. /\ t.sequence = s.sequence + 1 /\ t.modeSequence = s.modeSequence /\ t.remote = s.remote
      /\ t.requested = s.requested /\ t.wanted = s.wanted
  BY DEF SessionType
<1>3. c \in Commands /\ c.type = "CancelInject" /\ c.seq = s.sequence + 1
  BY DEF CancelInject, Commands, SessionType
<1> HIDE DEF t, c
<1>4. /\ n \in Seq(Commands) /\ Sent(n) = Sent(q) \cup {c}
      /\ \A T : Has(n, T) <=> Has(q, T) \/ c.type \in T
      /\ \A T : Once(q, T) /\ (c.type \in T => ~Has(q, T)) => Once(n, T)
  BY <1>3, Appended
<1>5. n \in Seq(Commands) /\ Sent(n) = Sent(q) \cup {c}
  BY <1>4
<1>6. Increasing(n, low, t.sequence)
  <2>1. s.sequence \in Nat
    BY DEF SessionType
  <2> QED BY <1>2, <1>3, <2>1, IncreasingAppended
<1>7. Once(q, {"Mode"}) /\ Once(q, {"Inject"})
  BY DEF ModeFits, InjectFits
<1>8. Once(n, {"Mode"}) /\ Once(n, {"Inject"})
  BY <1>3, <1>4, <1>7
<1>9. (Has(n, {"Mode"}) <=> Has(q, {"Mode"})) /\ (Has(n, {"Inject"}) <=> Has(q, {"Inject"}))
  BY <1>3, <1>4
<1>10. \A d \in Sent(n) : d.type \in {"Mode", "Inject"} => d \in Sent(q)
  BY <1>3, <1>5
<1> HIDE DEF n
<1>11. ModeFits(n, r, t, m, sl)
  BY <1>2, <1>8, <1>9, <1>10 DEF ModeFits, InFlight
<1>12. InjectFits(n, r, t, rem)
  BY <1>2, <1>8, <1>9, <1>10 DEF InjectFits
<1> QED
  BY <1>1, <1>5, <1>6, <1>10, <1>11, <1>12 DEF t, n, c

(* synchronize() keeps what is in flight in order: a Mode is sent only when no *)
(* other change of owner is on its way.                                        *)
Added(t, s, a) ==
    IF t.modeSequence = s.modeSequence THEN <<>>
    ELSE <<Mode(t.sequence, t.requested, t.wanted, a)>>

(* A Mode is added only when none is in flight (selectInput). *)
LEMMA SettleFits ==
    ASSUME NEW s \in SessionType, NEW want \in Scenes, NEW own \in Slots,
           NEW a \in Apps \cup {None},
           NEW q \in Seq(Commands), NEW r, NEW m, NEW sl, NEW rem,
           NEW low \in Nat, low <= s.sequence, s.modeSequence <= s.sequence,
           s.ready => s.requested = None,
           Increasing(q, low, s.sequence), ModeFits(q, r, s, m, sl), InjectFits(q, r, s, rem)
    PROVE  LET t == RequestPolicy(s, want, own)
               n == q \o Added(t, s, a)
           IN  /\ s.sequence <= t.sequence /\ t.modeSequence <= t.sequence
               /\ n \in Seq(Commands) /\ Increasing(n, low, t.sequence)
               /\ ModeFits(n, r, t, m, sl) /\ InjectFits(n, r, t, rem)
               /\ t.requested = None => s.requested = None
               /\ \A c \in Sent(n) : c.type = "Mode" =>
                    \/ c \in Sent(q)
                    \/ c.mode = WantedMode(want) /\ c.slot = own /\ c.for = a
<1> DEFINE t == RequestPolicy(s, want, own)
           n == q \o Added(t, s, a)
<1>1. /\ t \in SessionType /\ t.remote = s.remote
      /\ \/ /\ t.modeSequence = s.modeSequence /\ t.sequence = s.sequence
            /\ t.requested = s.requested /\ t.wanted = s.wanted
         \/ /\ t.modeSequence # s.modeSequence
            /\ s.requested = None /\ t.requested = WantedMode(want) /\ t.wanted = own
            /\ t.sequence = s.sequence + 1 /\ t.modeSequence = t.sequence
  BY Requested
<1>2. s.sequence \in Nat /\ s.modeSequence \in Nat
  BY DEF SessionType
<1> HIDE DEF t, n
<1>3. CASE /\ t.modeSequence = s.modeSequence /\ t.sequence = s.sequence
           /\ t.requested = s.requested /\ t.wanted = s.wanted
  <2>1. n = q
    BY <1>3 DEF Added, n
  <2>2. ModeFits(q, r, t, m, sl) /\ InjectFits(q, r, t, rem)
    BY <1>1, <1>3 DEF ModeFits, InjectFits, InFlight
  <2>3. /\ s.sequence <= t.sequence /\ t.modeSequence <= t.sequence
        /\ n \in Seq(Commands) /\ Increasing(n, low, t.sequence)
        /\ ModeFits(n, r, t, m, sl) /\ InjectFits(n, r, t, rem)
        /\ t.requested = None => s.requested = None
        /\ \A c \in Sent(n) : c.type = "Mode" => c \in Sent(q)
    BY <1>2, <1>3, <2>1, <2>2
  <2> QED BY <2>3 DEF t, n
<1>4. CASE /\ t.modeSequence # s.modeSequence
           /\ s.requested = None /\ t.requested = WantedMode(want) /\ t.wanted = own
           /\ t.sequence = s.sequence + 1 /\ t.modeSequence = t.sequence
  <2> DEFINE c == Mode(t.sequence, t.requested, t.wanted, a)
  <2>1. n = q \o <<c>>
    BY <1>4 DEF Added, n
  <2>2. WantedMode(want) \in Modes /\ WantedMode(want) # None
    BY OwnershipAssumption DEF WantedMode, Modes
  <2>3. c \in Commands /\ c.type = "Mode" /\ c.seq = t.sequence /\ c.mode = t.requested
        /\ c.slot = t.wanted /\ c.for = a
    BY <1>2, <1>4, <2>2 DEF Mode, Commands
  <2> HIDE DEF c
  <2>4. /\ q \o <<c>> \in Seq(Commands) /\ Sent(q \o <<c>>) = Sent(q) \cup {c}
        /\ \A T : Has(q \o <<c>>, T) <=> Has(q, T) \/ c.type \in T
        /\ \A T : Once(q, T) /\ (c.type \in T => ~Has(q, T)) => Once(q \o <<c>>, T)
    BY <2>3, Appended
  <2>5. q \o <<c>> \in Seq(Commands) /\ Sent(q \o <<c>>) = Sent(q) \cup {c}
    BY <2>4
  <2>6. Increasing(q \o <<c>>, low, t.sequence)
    BY <1>2, <1>4, <2>3, IncreasingAppended
  <2>7. ~Has(q, {"Mode"}) /\ ~Has(r, {"Ack"})
    BY <1>4 DEF ModeFits, Has, InFlight
  <2>8. Once(q, {"Mode"}) /\ Once(q, {"Inject"})
    BY DEF ModeFits, InjectFits
  <2>9. Once(q \o <<c>>, {"Mode"}) /\ Once(q \o <<c>>, {"Inject"})
    BY <2>3, <2>4, <2>7, <2>8
  <2>10. Has(q \o <<c>>, {"Inject"}) <=> Has(q, {"Inject"})
    BY <2>3, <2>4
  <2>11. \A d \in Sent(q \o <<c>>) : /\ d.type = "Inject" => d \in Sent(q)
                                     /\ d.type = "Mode" => d = c
    BY <2>3, <2>5, <2>7 DEF Has
  <2>12. \A p \in Sent(r) : p.type # "Ack"
    BY <2>7 DEF Has
  <2>13. ModeFits(q \o <<c>>, r, t, m, sl)
    BY <1>4, <2>2, <2>3, <2>7, <2>9, <2>11, <2>12 DEF ModeFits, InFlight
  <2>14. InjectFits(q \o <<c>>, r, t, rem)
    BY <1>1, <2>9, <2>10, <2>11 DEF InjectFits
  <2> QED BY <1>2, <1>4, <2>1, <2>2, <2>3, <2>5, <2>6, <2>11, <2>13, <2>14 DEF t, n
<1> QED
  BY <1>1, <1>3, <1>4

(* What synchronize() makes of the session s that a handler left behind. *)
Settles(s, want) == SceneChanged(s, want) \/ Settle(s, want, <<>>)

(* What synchronize() leaves of a session and of the channel. *)
LEMMA SettlesHold ==
    ASSUME NEW s \in SessionType, NEW want \in Scenes, NEW r, Settles(s, want),
           InputSlot' \in Slots, active' \in Apps \cup {None},
           toRouter \in Seq(Commands), commandSequence \in Nat, commandSequence <= s.sequence,
           s.modeSequence <= s.sequence, s.ready => s.requested = None,
           Increasing(toRouter, commandSequence, s.sequence),
           ModeFits(toRouter, r, s, mode, slot), InjectFits(toRouter, r, s, remote)
    PROVE  /\ session' \in SessionType /\ session'.modeSequence <= session'.sequence
           /\ commandSequence <= session'.sequence
           /\ toRouter' \in Seq(Commands)
           /\ Increasing(toRouter', commandSequence, session'.sequence)
           /\ ModeFits(toRouter', r, session', mode, slot)
           /\ InjectFits(toRouter', r, session', remote)
           /\ session'.mode = s.mode /\ session'.slot = s.slot /\ session'.agreed = s.agreed
           /\ session'.requested = None => s.requested = None
           /\ \/ session'.asked = s.asked
              \/ /\ s.asked = None /\ session'.asked = Proposal(s.agreed, want)
                 /\ session'.ready => s.agreed.privacy # want.privacy
           /\ session'.ready => session'.requested = None
           /\ s.asked # None => session'.ready = s.ready
           /\ session'.ready /\ session'.asked = None =>
                s.agreed = want /\ session'.mode = WantedMode(want) /\ session'.slot = InputSlot'
           /\ \A c \in Sent(toRouter') : c.type = "Mode" =>
                \/ c \in Sent(toRouter)
                \/ c.mode = WantedMode(want) /\ c.slot = InputSlot' /\ c.for = active'
<1> DEFINE own == InputSlot'
           a == active'
<1>1. CASE Settle(s, want, <<>>)
  <2> DEFINE t == RequestPolicy(s, want, own)
  <2>1. session' = t /\ toRouter' = toRouter \o <<>> \o Added(t, s, a)
    BY <1>1 DEF Settle, Added
  <2>2. toRouter \o <<>> = toRouter
    BY ConcatEmptySeq
  <2>3. toRouter' = toRouter \o Added(t, s, a)
    BY <2>1, <2>2
  <2>4. own \in Slots /\ a \in Apps \cup {None}
    OBVIOUS
  <2> HIDE DEF own, a
  <2>5. /\ t \in SessionType
        /\ t.mode = s.mode /\ t.slot = s.slot /\ t.remote = s.remote /\ t.agreed = s.agreed
        /\ \/ t.asked = s.asked
           \/ /\ s.asked = None /\ t.asked = Proposal(s.agreed, want)
              /\ t.ready => s.agreed.privacy # want.privacy
        /\ t.ready => t.requested = None
        /\ s.asked # None => t.ready = s.ready
        /\ t.ready /\ t.asked = None =>
             s.agreed = want /\ t.mode = WantedMode(want) /\ t.slot = own
    BY <2>4, Requested
  <2>6. /\ s.sequence <= t.sequence /\ t.modeSequence <= t.sequence
        /\ toRouter \o Added(t, s, a) \in Seq(Commands)
        /\ Increasing(toRouter \o Added(t, s, a), commandSequence, t.sequence)
        /\ ModeFits(toRouter \o Added(t, s, a), r, t, mode, slot)
        /\ InjectFits(toRouter \o Added(t, s, a), r, t, remote)
        /\ t.requested = None => s.requested = None
        /\ \A c \in Sent(toRouter \o Added(t, s, a)) : c.type = "Mode" =>
             \/ c \in Sent(toRouter)
             \/ c.mode = WantedMode(want) /\ c.slot = own /\ c.for = a
    BY <2>4, SettleFits
  <2>7. s.sequence \in Nat /\ t.sequence \in Nat
    BY <2>5 DEF SessionType
  <2> HIDE DEF t
  <2>8. commandSequence <= session'.sequence
    BY <2>1, <2>6, <2>7
  <2> QED BY <2>1, <2>3, <2>5, <2>6, <2>8 DEF own, a
<1>2. CASE ~Settle(s, want, <<>>)
  <2> DEFINE u == [s EXCEPT !.sequence = @ + 1]
             c0 == CancelInject(s.sequence + 1)
             n == toRouter \o <<c0>>
             t == RequestPolicy(u, want, own)
  <2>1. session' = t /\ toRouter' = n \o Added(t, u, a)
    BY <1>2 DEF Settles, SceneChanged, Settle, Added
  <2>4. own \in Slots /\ a \in Apps \cup {None}
    OBVIOUS
  <2> HIDE DEF own, a
  <2>2. /\ u \in SessionType /\ n \in Seq(Commands)
        /\ Increasing(n, commandSequence, u.sequence)
        /\ ModeFits(n, r, u, mode, slot) /\ InjectFits(n, r, u, remote)
        /\ \A c \in Sent(n) : c.type = "Mode" => c \in Sent(toRouter)
    BY CancelFits
  <2>3. /\ u.sequence = s.sequence + 1 /\ u.modeSequence = s.modeSequence
        /\ u.ready = s.ready /\ u.requested = s.requested /\ u.mode = s.mode /\ u.slot = s.slot
        /\ u.agreed = s.agreed /\ u.asked = s.asked
    BY DEF SessionType
  <2>7. s.sequence \in Nat /\ s.modeSequence \in Nat
    BY DEF SessionType
  <2> HIDE DEF u, n, c0
  <2>8. commandSequence <= u.sequence /\ u.modeSequence <= u.sequence
    BY <2>3, <2>7
  <2>9. u.ready => u.requested = None
    BY <2>3
  <2>5. /\ t \in SessionType
        /\ t.mode = u.mode /\ t.slot = u.slot /\ t.remote = u.remote /\ t.agreed = u.agreed
        /\ \/ t.asked = u.asked
           \/ /\ u.asked = None /\ t.asked = Proposal(u.agreed, want)
              /\ t.ready => u.agreed.privacy # want.privacy
        /\ t.ready => t.requested = None
        /\ u.asked # None => t.ready = u.ready
        /\ t.ready /\ t.asked = None =>
             u.agreed = want /\ t.mode = WantedMode(want) /\ t.slot = own
    BY <2>2, <2>4, <2>8, <2>9, Requested
  <2>6. /\ u.sequence <= t.sequence /\ t.modeSequence <= t.sequence
        /\ n \o Added(t, u, a) \in Seq(Commands)
        /\ Increasing(n \o Added(t, u, a), commandSequence, t.sequence)
        /\ ModeFits(n \o Added(t, u, a), r, t, mode, slot)
        /\ InjectFits(n \o Added(t, u, a), r, t, remote)
        /\ t.requested = None => u.requested = None
        /\ \A c \in Sent(n \o Added(t, u, a)) : c.type = "Mode" =>
             \/ c \in Sent(n)
             \/ c.mode = WantedMode(want) /\ c.slot = own /\ c.for = a
    BY <2>2, <2>4, <2>8, <2>9, SettleFits
  <2>10. u.sequence \in Nat /\ t.sequence \in Nat
    BY <2>2, <2>5 DEF SessionType
  <2> HIDE DEF t
  <2>11. commandSequence <= session'.sequence
    BY <2>1, <2>6, <2>8, <2>10
  <2>12. \A c \in Sent(toRouter') : c.type = "Mode" =>
           \/ c \in Sent(toRouter)
           \/ c.mode = WantedMode(want) /\ c.slot = own /\ c.for = a
    BY <2>1, <2>2, <2>6
  <2> QED BY <2>1, <2>3, <2>5, <2>6, <2>11, <2>12 DEF own, a
<1> QED
  BY <1>1, <1>2

-----------------------------------------------------------------------------
(* What a handler leaves behind, and what settles it. *)

(* The tasks as their declarations allow, and the scene they make. *)
Tasks ==
    /\ active \in Apps \cup {None} /\ slotOf \in [Apps -> Slots \cup {None}]
    /\ apps \in [Apps -> {"none", "starting", "running", "done"}]
    /\ \A a \in Apps : (apps[a] = "none") = (slotOf[a] = None)
    /\ {quickOpen, homing, capturing} \subseteq BOOLEAN
    /\ TasksInSlots

(* The scene that the tasks and the page make. *)
LEMMA SceneOfTasks ==
    ASSUME Tasks'
    PROVE  /\ InputSlot' \in Slots /\ Scene' \in Scenes /\ active' \in Apps \cup {None}
           /\ Foreground' \in Apps \cup {None} /\ (Foreground' # None => Foreground' = active')
           /\ WantedMode(Scene') = IF Foreground' = None \/ quickOpen' THEN "ui" ELSE "game"
           /\ Scene'.privacy = ~capturing'
<1>1. InputSlot' \in Slots /\ active' \in Apps \cup {None}
  BY OwnershipAssumption DEF Tasks, TasksInSlots, InputSlot
<1>2. Foreground' \in Apps \cup {None} /\ (Foreground' # None => Foreground' = active')
  BY DEF Tasks, Foreground
<1>3. Scene' \in Scenes
  <2>1. (~capturing') \in BOOLEAN /\ (Foreground' # None /\ quickOpen') \in BOOLEAN
    OBVIOUS
  <2> QED BY <1>2, <2>1 DEF Scene, Scenes
<1>4. Scene'.game = Foreground' /\ Scene'.panel = (Foreground' # None /\ quickOpen')
      /\ Scene'.privacy = ~capturing'
  BY DEF Scene
<1>5. WantedMode(Scene') = IF Foreground' = None \/ quickOpen' THEN "ui" ELSE "game"
  BY <1>4 DEF WantedMode
<1> QED
  BY <1>1, <1>2, <1>3, <1>4, <1>5

(* The grant of every task's slot, made or on its way, is for the task. *)
Grants(of, q, m, sl, g) == \A a \in Apps : of[a] # None =>
    /\ m = "game" /\ sl = of[a] => g = a
    /\ \A c \in Sent(q) : c.type = "Mode" /\ c.mode = "game" /\ c.slot = of[a] => c.for = a

(* What a handler of the session or of the desktop has to leave behind, as s, for *)
(* synchronize() to restore everything that holds of the owner.                   *)
Leaves(s, want) ==
    /\ failed = None /\ failed' = None
    /\ UNCHANGED <<mode, slot, remote, commandSequence, grantee>>
    /\ s \in SessionType /\ s.modeSequence = session.modeSequence
    /\ s.sequence = session.sequence /\ (s.ready => s.requested = None)
    /\ toSession' \in Seq(Packets)
    /\ ModeFits(toRouter, toSession', s, mode, slot)
    /\ InjectFits(toRouter, toSession', s, remote)
    /\ s.requested = None /\ s.mode # None => s.mode = mode /\ s.slot = slot
    /\ Tasks' /\ want \in Scenes
    /\ want = Scene' \/ (want.game = None /\ active' # None /\ apps'[active'] = "starting")
    /\ captures' = 0 =>
         /\ ~capturing' /\ want.privacy /\ s.agreed.privacy
         /\ s.asked # None => s.asked.privacy /\ ~s.ready
         /\ Grants(slotOf', toRouter, mode, slot, grantee)

SessionInv ==
    /\ session \in SessionType /\ session.modeSequence <= session.sequence
    /\ commandSequence <= session.sequence
    /\ Tasks /\ Numbered /\ ModeInFlight /\ InjectInFlight /\ BeliefIsTrue /\ Settled /\ Private
    /\ GrantIsForOwner

(* synchronize() restores the invariant after every handler that leaves what it should. *)
LEMMA SettlesKeep ==
    ASSUME commandSequence \in Nat, SessionInv, NEW s, NEW want, Leaves(s, want), Settles(s, want)
    PROVE  SessionInv'
<1>1. /\ failed = None /\ failed' = None
      /\ mode' = mode /\ slot' = slot /\ remote' = remote /\ commandSequence' = commandSequence
      /\ grantee' = grantee /\ Tasks' /\ want \in Scenes /\ s \in SessionType
      /\ s.modeSequence = session.modeSequence /\ s.sequence = session.sequence
      /\ toSession' \in Seq(Packets)
  BY DEF Leaves
<1>2. /\ InputSlot' \in Slots /\ Scene' \in Scenes /\ active' \in Apps \cup {None}
      /\ Foreground' \in Apps \cup {None} /\ (Foreground' # None => Foreground' = active')
      /\ WantedMode(Scene') = IF Foreground' = None \/ quickOpen' THEN "ui" ELSE "game"
      /\ Scene'.privacy = ~capturing'
  BY <1>1, SceneOfTasks
<1>3. /\ session' \in SessionType /\ session'.modeSequence <= session'.sequence
      /\ commandSequence <= session'.sequence
      /\ toRouter' \in Seq(Commands)
      /\ Increasing(toRouter', commandSequence, session'.sequence)
      /\ ModeFits(toRouter', toSession', session', mode, slot)
      /\ InjectFits(toRouter', toSession', session', remote)
      /\ session'.mode = s.mode /\ session'.slot = s.slot /\ session'.agreed = s.agreed
      /\ session'.requested = None => s.requested = None
      /\ \/ session'.asked = s.asked
         \/ /\ s.asked = None /\ session'.asked = Proposal(s.agreed, want)
            /\ session'.ready => s.agreed.privacy # want.privacy
      /\ session'.ready => session'.requested = None
      /\ s.asked # None => session'.ready = s.ready
      /\ session'.ready /\ session'.asked = None =>
           s.agreed = want /\ session'.mode = WantedMode(want) /\ session'.slot = InputSlot'
      /\ \A c \in Sent(toRouter') : c.type = "Mode" =>
           \/ c \in Sent(toRouter)
           \/ c.mode = WantedMode(want) /\ c.slot = InputSlot' /\ c.for = active'
  <2>1. /\ toRouter \in Seq(Commands) /\ commandSequence <= s.sequence
        /\ s.modeSequence <= s.sequence /\ (s.ready => s.requested = None)
        /\ Increasing(toRouter, commandSequence, s.sequence)
        /\ ModeFits(toRouter, toSession', s, mode, slot)
        /\ InjectFits(toRouter, toSession', s, remote)
    BY DEF Leaves, SessionInv, Numbered
  <2> QED BY <1>1, <1>2, <2>1, SettlesHold
<1>4. Numbered' /\ ModeInFlight' /\ InjectInFlight'
  BY <1>1, <1>3 DEF Numbered, ModeInFlight, InjectInFlight
<1>5. BeliefIsTrue'
  <2>1. s.requested = None /\ s.mode # None => s.mode = mode /\ s.slot = slot
    BY DEF Leaves
  <2> QED BY <1>1, <1>3, <2>1 DEF BeliefIsTrue
<1>6. want = Scene' \/ (want.game = None /\ active' # None /\ apps'[active'] = "starting")
  BY DEF Leaves
<1>7. Settled'
  <2> SUFFICES ASSUME session'.ready, session'.asked = None,
                      active' # None => apps'[active'] # "starting"
               PROVE  session'.agreed = Scene' /\ session'.mode = WantedMode(Scene')
                      /\ session'.slot = InputSlot'
    BY <1>2, <1>3 DEF Settled, Owned
  <2> QED BY <1>3, <1>6
<1>8. Private'
  <2> SUFFICES ASSUME captures' = 0
               PROVE  /\ ~capturing' /\ session'.agreed.privacy
                      /\ session'.asked # None => session'.asked.privacy /\ ~session'.ready
    BY DEF Private
  <2>1. /\ ~capturing' /\ want.privacy /\ s.agreed.privacy
        /\ s.asked # None => s.asked.privacy /\ ~s.ready
    BY DEF Leaves
  <2>2. s.agreed \in Scenes
    BY <1>1 DEF SessionType
  <2>3. Proposal(s.agreed, want).privacy
    BY <1>1, <2>1, <2>2, Proposed
  <2>4. CASE s.asked # None
    BY <1>3, <2>1, <2>4
  <2>5. CASE s.asked = None
    BY <1>3, <2>1, <2>3, <2>5
  <2> QED BY <2>4, <2>5
<1>9. GrantIsForOwner'
  <2> SUFFICES ASSUME captures' = 0
               PROVE  Grants(slotOf', toRouter', mode, slot, grantee)
    BY <1>1 DEF GrantIsForOwner, Grants
  <2>1. Grants(slotOf', toRouter, mode, slot, grantee)
    BY DEF Leaves
  <2>2. ASSUME NEW b \in Apps, slotOf'[b] # None, NEW c \in Sent(toRouter'),
               c.type = "Mode", c.mode = "game", c.slot = slotOf'[b]
        PROVE  c.for = b
    <3>1. CASE c \in Sent(toRouter)
      BY <2>1, <2>2, <3>1 DEF Grants
    <3>2. CASE c.mode = WantedMode(want) /\ c.slot = InputSlot' /\ c.for = active'
      <4>1. want = Scene' /\ Foreground' # None
        BY <1>2, <1>6, <2>2, <3>2 DEF WantedMode
      <4>2. active' \in Apps /\ active' # None
        BY <1>2, <4>1 DEF Foreground
      <4>3. slotOf'[active'] = slotOf'[b]
        BY <2>2, <3>2, <4>2 DEF InputSlot
      <4>4. \A a, d \in Apps : slotOf'[a] = slotOf'[d] /\ slotOf'[a] # None => a = d
        BY <1>1 DEF Tasks, TasksInSlots
      <4> QED BY <2>2, <3>2, <4>2, <4>3, <4>4
    <3> QED BY <1>3, <2>2, <3>1, <3>2
  <2> QED BY <2>1, <2>2 DEF Grants
<1> QED
  BY <1>1, <1>3, <1>4, <1>5, <1>7, <1>8, <1>9 DEF SessionInv

(* A step that leaves the owner, the tasks and what is asked alone. *)
LEMMA SameOwner ==
    ASSUME SessionInv, UNCHANGED <<mode, slot, grantee, captures>>, homing' \in BOOLEAN,
           UNCHANGED <<active, apps, slotOf, quickOpen, capturing>>,
           failed' = None => failed = None,
           session'.mode = session.mode, session'.slot = session.slot,
           session'.requested = session.requested, session'.asked = session.asked,
           session'.agreed = session.agreed, session'.ready => session.ready,
           \A c \in Sent(toRouter') : c.type = "Mode" => c \in Sent(toRouter)
    PROVE  /\ Tasks' /\ BeliefIsTrue' /\ Settled' /\ Private' /\ GrantIsForOwner'
           /\ Scene' = Scene /\ InputSlot' = InputSlot
<1>1. /\ active' = active /\ apps' = apps /\ slotOf' = slotOf /\ quickOpen' = quickOpen
      /\ capturing' = capturing
      /\ mode' = mode /\ slot' = slot /\ grantee' = grantee /\ captures' = captures
  OBVIOUS
<1>2. Tasks'
  BY <1>1 DEF SessionInv, Tasks, TasksInSlots
<1>3. Scene' = Scene /\ InputSlot' = InputSlot /\ Foreground' = Foreground
  BY <1>1 DEF Scene, InputSlot, Foreground, Alive
<1>4. BeliefIsTrue'
  BY <1>1 DEF SessionInv, BeliefIsTrue
<1>5. Settled'
  BY <1>1, <1>3 DEF SessionInv, Settled, Owned
<1>6. Private'
  BY <1>1 DEF SessionInv, Private
<1>7. GrantIsForOwner'
  <2> SUFFICES ASSUME captures' = 0, NEW a \in Apps, slotOf'[a] # None
               PROVE  /\ mode' = "game" /\ slot' = slotOf'[a] => grantee' = a
                      /\ \A c \in Sent(toRouter') :
                           c.type = "Mode" /\ c.mode = "game" /\ c.slot = slotOf'[a] => c.for = a
    BY DEF GrantIsForOwner
  <2>1. /\ mode = "game" /\ slot = slotOf[a] => grantee = a
        /\ \A c \in Sent(toRouter) :
             c.type = "Mode" /\ c.mode = "game" /\ c.slot = slotOf[a] => c.for = a
    BY <1>1 DEF SessionInv, GrantIsForOwner
  <2> QED BY <1>1, <2>1
<1> QED
  BY <1>2, <1>3, <1>4, <1>5, <1>6, <1>7

(* What SessionInv says while the session has not failed. *)
LEMMA Fitting ==
    ASSUME SessionInv, failed = None
    PROVE  /\ ModeFits(toRouter, toSession, session, mode, slot)
           /\ InjectFits(toRouter, toSession, session, remote)
           /\ session.ready => session.requested = None
           /\ session.requested = None /\ session.mode # None =>
                session.mode = mode /\ session.slot = slot
           /\ toRouter \in Seq(Commands) /\ toSession \in Seq(Packets)
           /\ Increasing(toRouter, commandSequence, session.sequence)
BY DEF SessionInv, ModeInFlight, InjectInFlight, Settled, BeliefIsTrue, Numbered

(* A session that differs in what is held of the owner and of the keys alone. *)
Same(s) ==
    /\ s.modeSequence = session.modeSequence /\ s.sequence = session.sequence
    /\ s.ready = session.ready /\ s.requested = session.requested
    /\ s.wanted = session.wanted /\ s.slot = session.slot /\ s.remote = session.remote
    /\ s.asked = session.asked /\ s.agreed = session.agreed

(* A change of the tasks or of the page of the desktop, or of what is held of the owner. *)
LEMMA HandlerLeaves ==
    ASSUME SessionInv, failed = None, failed' = None,
           UNCHANGED <<mode, slot, remote, commandSequence, grantee>>,
           toSession' \in Seq(Packets), ModeFits(toRouter, toSession', session, mode, slot),
           InjectFits(toRouter, toSession', session, remote),
           NEW s \in SessionType, Same(s), s.mode \in {session.mode, None}, Tasks',
           captures' = 0 => captures = 0 /\ capturing' \in {FALSE, capturing},
           \A a \in Apps : slotOf'[a] \in {slotOf[a], None}
    PROVE  Leaves(s, Scene')
<1>1. /\ s.modeSequence = session.modeSequence
      /\ s.sequence = session.sequence /\ s.ready = session.ready
      /\ s.requested = session.requested /\ s.wanted = session.wanted
      /\ s.slot = session.slot /\ s.remote = session.remote /\ s.asked = session.asked
      /\ s.agreed = session.agreed
  BY DEF Same
<1>3. ModeFits(toRouter, toSession', s, mode, slot) /\ InjectFits(toRouter, toSession', s, remote)
  BY <1>1 DEF ModeFits, InjectFits, InFlight
<1>4. Scene' \in Scenes /\ Scene'.privacy = ~capturing'
  BY SceneOfTasks
<1>5. ASSUME captures' = 0
      PROVE  /\ ~capturing' /\ Scene'.privacy /\ s.agreed.privacy
             /\ s.asked # None => s.asked.privacy /\ ~s.ready
             /\ Grants(slotOf', toRouter, mode, slot, grantee)
  <2>1. Grants(slotOf', toRouter, mode, slot, grantee)
    <3> SUFFICES ASSUME NEW a \in Apps, slotOf'[a] # None
                 PROVE  /\ mode = "game" /\ slot = slotOf'[a] => grantee = a
                        /\ \A c \in Sent(toRouter) :
                             c.type = "Mode" /\ c.mode = "game" /\ c.slot = slotOf'[a]
                               => c.for = a
      BY DEF Grants
    <3>1. slotOf'[a] = slotOf[a] /\ captures = 0
      BY <1>5
    <3>2. GrantIsForOwner
      BY DEF SessionInv
    <3>3. /\ mode = "game" /\ slot = slotOf[a] => grantee = a
          /\ \A c \in Sent(toRouter) :
               c.type = "Mode" /\ c.mode = "game" /\ c.slot = slotOf[a] => c.for = a
      BY <1>5, <3>1, <3>2 DEF GrantIsForOwner
    <3> QED BY <3>1, <3>3
  <2>2. /\ ~capturing /\ session.agreed.privacy
        /\ session.asked # None => session.asked.privacy /\ ~session.ready
    BY <1>5 DEF SessionInv, Private
  <2>3. ~capturing'
    <3>1. capturing' = FALSE \/ capturing' = capturing
      BY <1>5
    <3> QED BY <2>2, <3>1
  <2>4. Scene'.privacy
    BY <1>4, <2>3
  <2>5. s.agreed.privacy /\ (s.asked # None => s.asked.privacy /\ ~s.ready)
    BY <1>1, <2>2
  <2> QED BY <2>1, <2>3, <2>4, <2>5
<1> QED
  BY <1>1, <1>3, <1>4, <1>5, Fitting DEF Leaves

(* A handler of the desktop leaves what synchronize() needs. *)
LEMMA DesktopLeaves ==
    ASSUME SessionInv, failed = None, UNCHANGED <<router, failed>>,
           NEW s \in {session, [session EXCEPT !.wait = TRUE]}, Tasks',
           captures' = 0 => captures = 0 /\ capturing' \in {FALSE, capturing},
           \A a \in Apps : slotOf'[a] \in {slotOf[a], None}
    PROVE  Leaves(s, Scene')
<1>1. s \in SessionType /\ Same(s) /\ s.mode = session.mode
  BY DEF SessionInv, SessionType, Same
<1>2. /\ UNCHANGED <<mode, slot, remote, commandSequence, grantee, failed>>
      /\ toSession' = toSession
  BY DEF router, policy
<1> QED
  BY <1>1, <1>2, Fitting, HandlerLeaves

(* Tasks keep slots of their own, and a slot changes hands only through a launch. *)
LEMMA TasksHold ==
    ASSUME Tasks, Desktop \/ ReceivePanel
    PROVE  /\ Tasks'
           /\ \A a \in Apps : slotOf'[a] \in {slotOf[a], None} \/ Launch(a)
<1> USE OwnershipAssumption DEF Tasks, TasksInSlots, desktop, DesktopOnly, Counted
<1>1. ASSUME NEW a \in Apps, Launch(a)
      PROVE  Tasks' /\ \A b \in Apps : slotOf'[b] \in {slotOf[b], None} \/ Launch(b)
  <2>1. PICK s \in Slots : (\A b \in Apps : slotOf[b] # s) /\ slotOf' = [slotOf EXCEPT ![a] = s]
    BY <1>1 DEF Launch
  <2>2. /\ apps[a] = "none" /\ apps' = [apps EXCEPT ![a] = "starting"] /\ active' = a
        /\ capturing' = FALSE /\ quickOpen' = quickOpen /\ homing' = homing
    BY <1>1 DEF Launch
  <2>3. s # None
    OBVIOUS
  <2>4. \A b \in Apps : slotOf'[b] = IF b = a THEN s ELSE slotOf[b]
    BY <2>1
  <2>5. \A b \in Apps : apps'[b] = IF b = a THEN "starting" ELSE apps[b]
    BY <2>2
  <2>6. slotOf' \in [Apps -> Slots \cup {None}] /\ active' \in Apps \cup {None}
        /\ apps' \in [Apps -> {"none", "starting", "running", "done"}]
        /\ {quickOpen', homing', capturing'} \subseteq BOOLEAN
    BY <2>1, <2>2
  <2>7. \A b \in Apps : (apps'[b] = "none") = (slotOf'[b] = None)
    BY <2>3, <2>4, <2>5
  <2>8. \A b, c \in Apps : slotOf'[b] = slotOf'[c] /\ slotOf'[b] # None => b = c
    BY <2>1, <2>4
  <2>9. active' # None => apps'[active'] # "none"
    BY <2>2, <2>5
  <2> QED BY <1>1, <2>4, <2>6, <2>7, <2>8, <2>9
<1>2. ASSUME NEW a \in Apps, Started(a) \/ Finished(a)
      PROVE  Tasks' /\ slotOf' = slotOf
  <2>1. PICK to \in {"running", "done"} : apps' = [apps EXCEPT ![a] = to]
    BY <1>2 DEF Started, Finished
  <2>2. /\ apps[a] # "none" /\ active' = active /\ slotOf' = slotOf /\ quickOpen' = quickOpen
        /\ homing' = homing /\ capturing' = FALSE
    BY <1>2 DEF Started, Finished
  <2>3. apps' \in [Apps -> {"none", "starting", "running", "done"}]
        /\ \A b \in Apps : apps'[b] = IF b = a THEN to ELSE apps[b]
    BY <2>1
  <2>4. \A b \in Apps : (apps'[b] = "none") = (slotOf'[b] = None)
    BY <2>2, <2>3
  <2>5. active' # None => apps'[active'] # "none"
    BY <2>2, <2>3
  <2> QED BY <2>2, <2>3, <2>4, <2>5
<1>5. ASSUME NEW a \in Apps, Activate(a)
      PROVE  Tasks' /\ slotOf' = slotOf
  <2>1. /\ apps[a] # "none" /\ active' = a /\ slotOf' = slotOf /\ quickOpen' = quickOpen
        /\ homing' = homing /\ capturing' = FALSE /\ apps' = apps
    BY <1>5 DEF Activate, Alive
  <2> QED BY <2>1
<1>3. ASSUME NEW a \in Apps, Complete(a)
      PROVE  Tasks' /\ \A b \in Apps : slotOf'[b] \in {slotOf[b], None}
  <2>1. /\ apps[a] = "done" /\ apps' = [apps EXCEPT ![a] = "none"]
        /\ slotOf' = [slotOf EXCEPT ![a] = None]
        /\ capturing' = FALSE /\ homing' = homing
        /\ \/ active = a /\ active' = None /\ quickOpen' = FALSE
           \/ active # a /\ active' = active /\ quickOpen' = quickOpen
    BY <1>3 DEF Complete, Free
  <2>2. \A b \in Apps : slotOf'[b] = IF b = a THEN None ELSE slotOf[b]
    BY <2>1
  <2>3. \A b \in Apps : apps'[b] = IF b = a THEN "none" ELSE apps[b]
    BY <2>1
  <2>4. slotOf' \in [Apps -> Slots \cup {None}] /\ active' \in Apps \cup {None}
        /\ apps' \in [Apps -> {"none", "starting", "running", "done"}]
        /\ {quickOpen', homing', capturing'} \subseteq BOOLEAN
    BY <2>1
  <2>5. active' # None => apps'[active'] # "none"
    BY <2>1, <2>3
  <2>6. \A b \in Apps : (apps'[b] = "none") = (slotOf'[b] = None)
    BY <2>2, <2>3
  <2>7. \A b, c \in Apps : slotOf'[b] = slotOf'[c] /\ slotOf'[b] # None => b = c
    BY <2>2
  <2> QED BY <2>2, <2>4, <2>5, <2>6, <2>7
<1>4. ASSUME \/ ShowDesktop \/ Background \/ LeavePanel \/ BeginCapture \/ EndCapture
             \/ InjectGame \/ CancelGameInput \/ ReceivePanel
      PROVE  Tasks' /\ slotOf' = slotOf
  <2>1. /\ apps' = apps /\ slotOf' = slotOf /\ active' \in {active, None}
        /\ homing' \in {homing, FALSE}
    BY <1>4 DEF ShowDesktop, Background, LeavePanel, BeginCapture, EndCapture, ToDesktop,
       InjectGame, CancelGameInput, ReceivePanel
  <2>2. quickOpen' \in BOOLEAN
    BY <1>4 DEF ShowDesktop, Background, LeavePanel, BeginCapture, EndCapture, ToDesktop,
       InjectGame, CancelGameInput, ReceivePanel
  <2>3. capturing' \in BOOLEAN
    BY <1>4 DEF ShowDesktop, Background, LeavePanel, BeginCapture, EndCapture, ToDesktop,
       InjectGame, CancelGameInput, ReceivePanel
  <2> QED BY <2>1, <2>2, <2>3
<1> QED
  BY <1>1, <1>2, <1>3, <1>4, <1>5 DEF Desktop

-----------------------------------------------------------------------------
(* The desktop. *)

(* A launch: before the first capture a ready desktop has nothing asked, so the *)
(* pad is the desktop's, and no grant of a slot is made or on its way.          *)
LEMMA LaunchKeeps ==
    ASSUME SessionInv, commandSequence \in Nat, NEW a \in Apps, Launch(a)
    PROVE  SessionInv'
<1> DEFINE want == [Scene' EXCEPT !.game = None, !.panel = FALSE]
<1>1. Tasks'
  BY TasksHold DEF SessionInv, Desktop
<1>2. /\ failed = None /\ session.ready /\ active = None
      /\ apps' = [apps EXCEPT ![a] = "starting"]
      /\ active' = a /\ capturing' = FALSE /\ captures' = captures
      /\ apps[a] = "none"
      /\ UNCHANGED <<router, failed>> /\ SceneChanged(session, want)
  BY DEF Launch, Counted, DesktopOnly
<1>3. PICK s \in Slots : slotOf' = [slotOf EXCEPT ![a] = s]
  BY DEF Launch
<1>4. /\ mode' = mode /\ slot' = slot /\ remote' = remote /\ grantee' = grantee
      /\ commandSequence' = commandSequence /\ toSession' = toSession /\ failed' = None
  BY <1>2 DEF router, policy
<1>5. Scene' \in Scenes /\ Scene'.privacy = ~capturing'
  BY <1>1, SceneOfTasks
<1>6. want \in Scenes /\ want.game = None /\ want.privacy = Scene'.privacy
  BY <1>5 DEF Scenes
<1> HIDE DEF want
<1>7. a # None /\ apps'[a] = "starting"
  BY <1>2, OwnershipAssumption DEF SessionInv, Tasks
<1>8. ASSUME captures' = 0
      PROVE  /\ ~capturing' /\ want.privacy /\ session.agreed.privacy
             /\ session.asked # None => session.asked.privacy /\ ~session.ready
             /\ Grants(slotOf', toRouter, mode, slot, grantee)
  <2>1. captures = 0
    BY <1>2, <1>8
  <2>2. /\ session.agreed.privacy /\ session.asked = None
    BY <1>2, <2>1 DEF SessionInv, Private
  <2>3. session.requested = None /\ session.mode = "ui"
    <3>1. Settled
      BY DEF SessionInv
    <3>2. Foreground = None
      BY <1>2 DEF Foreground
    <3> QED BY <1>2, <2>2, <3>1, <3>2 DEF Settled, Owned
  <2>4. mode = "ui"
    <3>1. session.mode # None
      BY <2>3, OwnershipAssumption
    <3> QED BY <1>2, <2>3, <3>1, Fitting
  <2>5. \A c \in Sent(toRouter) : c.type # "Mode"
    BY <1>2, <2>3, Fitting DEF ModeFits, InFlight
  <2>6. Grants(slotOf', toRouter, mode, slot, grantee)
    BY <2>4, <2>5 DEF Grants
  <2>7. ~capturing'
    BY <1>2
  <2>8. want.privacy
    BY <1>5, <1>6, <2>7
  <2> QED BY <2>2, <2>6, <2>7, <2>8
<1>9. session \in SessionType
  BY DEF SessionInv
<1>10. Leaves(session, want)
  BY <1>1, <1>2, <1>4, <1>6, <1>7, <1>8, <1>9, Fitting DEF Leaves
<1> QED
  BY <1>2, <1>10, SettlesKeep DEF Settles

(* A tool input sent or cancelled is the only one. *)
LEMMA InjectKeeps ==
    ASSUME SessionInv, commandSequence \in Nat, InjectGame \/ CancelGameInput
    PROVE  SessionInv'
<1>1. /\ failed = None /\ failed' = None
      /\ UNCHANGED <<mode, slot, remote, commandSequence, grantee, captures, toSession>>
      /\ UNCHANGED <<active, apps, slotOf, quickOpen, capturing, homing>>
  BY DEF InjectGame, CancelGameInput, router, policy, desktop
<1>2. session \in SessionType /\ homing \in BOOLEAN /\ session.sequence \in Nat
      /\ session.modeSequence \in Nat /\ session.modeSequence <= session.sequence
      /\ commandSequence <= session.sequence
  BY DEF SessionInv, Tasks, SessionType
<1>3. CASE CancelGameInput
  <2> DEFINE t == [session EXCEPT !.sequence = @ + 1]
             n == toRouter \o <<CancelInject(session.sequence + 1)>>
  <2>1. session' = t /\ toRouter' = n
    <3>1. CancelInject(session.sequence + 1) \in Commands
      BY <1>2 DEF CancelInject, Commands
    <3> QED BY <1>1, <1>3, <3>1, Fitting, Appended DEF CancelGameInput
  <2>2. /\ t \in SessionType /\ n \in Seq(Commands)
        /\ Increasing(n, commandSequence, t.sequence)
        /\ ModeFits(n, toSession, t, mode, slot) /\ InjectFits(n, toSession, t, remote)
        /\ \A c \in Sent(n) : c.type = "Mode" => c \in Sent(toRouter)
    BY <1>1, <1>2, Fitting, CancelFits
  <2>3. /\ t.mode = session.mode /\ t.slot = session.slot /\ t.requested = session.requested
        /\ t.asked = session.asked /\ t.agreed = session.agreed /\ t.ready = session.ready
        /\ t.modeSequence = session.modeSequence /\ t.sequence = session.sequence + 1
    BY <1>2 DEF SessionType
  <2> HIDE DEF t, n
  <2>4. /\ Tasks' /\ BeliefIsTrue' /\ Settled' /\ Private' /\ GrantIsForOwner'
    BY <1>1, <1>2, <2>1, <2>2, <2>3, SameOwner
  <2>5. Numbered' /\ ModeInFlight' /\ InjectInFlight'
    BY <1>1, <2>1, <2>2, Fitting DEF Numbered, ModeInFlight, InjectInFlight
  <2>6. t.modeSequence <= t.sequence /\ commandSequence <= t.sequence
    BY <1>2, <2>3
  <2> QED BY <1>1, <2>1, <2>2, <2>4, <2>5, <2>6 DEF SessionInv
<1>4. CASE InjectGame
  <2> DEFINE t == [session EXCEPT !.sequence = @ + 1, !.remote = session.sequence + 1]
             c == Inject(session.sequence + 1, InputSlot)
             n == toRouter \o <<c>>
  <2>1. InputSlot \in Slots
    <3>1. Tasks'
      BY <1>4, TasksHold DEF SessionInv, Desktop
    <3>2. InputSlot' = InputSlot
      BY <1>1 DEF InputSlot
    <3> QED BY <3>1, <3>2, SceneOfTasks
  <2>2. c \in Commands /\ c.type = "Inject" /\ c.seq = session.sequence + 1
    BY <1>2, <2>1 DEF Inject, Commands
  <2>3. t \in SessionType
    <3>1. session.sequence + 1 \in Nat
      BY <1>2
    <3> DEFINE k == session.sequence + 1
    <3>2. t = [[session EXCEPT !.sequence = k] EXCEPT !.remote = k]
      BY <1>2 DEF SessionType
    <3> HIDE DEF k
    <3>3. [[session EXCEPT !.sequence = k] EXCEPT !.remote = k] \in SessionType
      BY <1>2, <3>1 DEF SessionType, k
    <3> QED BY <3>2, <3>3
  <2>4. /\ t.mode = session.mode /\ t.slot = session.slot /\ t.requested = session.requested
        /\ t.asked = session.asked /\ t.agreed = session.agreed /\ t.ready = session.ready
        /\ t.modeSequence = session.modeSequence /\ t.sequence = session.sequence + 1
        /\ t.remote = session.sequence + 1 /\ t.wanted = session.wanted
    BY <1>2 DEF SessionType
  <2>5. session' = t /\ toRouter' = Append(toRouter, c) /\ session.remote = 0
    BY <1>4 DEF InjectGame, GameInputAvailable
  <2> HIDE DEF t, c, n
  <2>6. /\ Append(toRouter, c) = n /\ n \in Seq(Commands) /\ Sent(n) = Sent(toRouter) \cup {c}
        /\ \A T : Has(n, T) <=> Has(toRouter, T) \/ c.type \in T
        /\ \A T : Once(toRouter, T) /\ (c.type \in T => ~Has(toRouter, T)) => Once(n, T)
    BY <1>1, <2>2, Fitting, Appended DEF n
  <2>7. Increasing(n, commandSequence, t.sequence)
    BY <1>1, <1>2, <2>2, <2>4, Fitting, IncreasingAppended DEF n
  <2>8. ~Has(toRouter, {"Inject"}) /\ ~Has(toSession, Answers) /\ remote = 0
    <3>1. /\ \A d \in Sent(toRouter) : d.type = "Inject" => d.seq = 0
          /\ \A p \in Sent(toSession) : p.type \in Answers => p.seq = 0 /\ p.seq # 0
          /\ remote # 0 => remote = 0
      BY <1>1, <2>5, Fitting DEF InjectFits
    <3>2. \A d \in Sent(toRouter) : d.seq # 0
      <4>1. \A i \in DOMAIN toRouter : toRouter[i].seq \in (commandSequence + 1)..session.sequence
        BY <1>1, Fitting DEF Increasing
      <4> QED BY <1>2, <4>1 DEF Sent
    <3> QED BY <3>1, <3>2 DEF Has
  <2>9. \A d \in Sent(n) : /\ d.type = "Mode" => d \in Sent(toRouter)
                           /\ d.type = "Inject" => d = c
    BY <2>2, <2>6, <2>8 DEF Has
  <2>10. ModeFits(n, toSession, t, mode, slot)
    <3>1. Once(n, {"Mode"}) /\ (Has(n, {"Mode"}) <=> Has(toRouter, {"Mode"}))
      BY <1>1, <2>2, <2>6, Fitting DEF ModeFits
    <3> QED BY <1>1, <2>4, <2>9, <3>1, Fitting DEF ModeFits, InFlight
  <2>11. InjectFits(n, toSession, t, remote)
    <3>1. Once(n, {"Inject"})
      BY <1>1, <2>2, <2>6, <2>8, Fitting DEF InjectFits
    <3>2. \A p \in Sent(toSession) : p.type \notin Answers
      BY <2>8 DEF Has
    <3> QED BY <1>1, <2>2, <2>4, <2>8, <2>9, <3>1, <3>2, Fitting DEF InjectFits
  <2>12. /\ Tasks' /\ BeliefIsTrue' /\ Settled' /\ Private' /\ GrantIsForOwner'
    BY <1>1, <1>2, <2>4, <2>5, <2>6, <2>9, SameOwner
  <2>13. Numbered' /\ ModeInFlight' /\ InjectInFlight'
    <3>1. session' = t /\ toRouter' = n /\ toSession' = toSession /\ toSession \in Seq(Packets)
          /\ mode' = mode /\ slot' = slot /\ remote' = remote
          /\ commandSequence' = commandSequence
      BY <1>1, <2>5, <2>6, Fitting
    <3> QED BY <2>6, <2>7, <2>10, <2>11, <3>1 DEF Numbered, ModeInFlight, InjectInFlight
  <2>14. t.modeSequence <= t.sequence /\ commandSequence <= t.sequence
    BY <1>2, <2>4
  <2> QED BY <1>1, <2>3, <2>5, <2>12, <2>13, <2>14 DEF SessionInv
<1> QED
  BY <1>3, <1>4

(* Every step of the desktop. *)
LEMMA DesktopKeeps ==
    ASSUME SessionInv, commandSequence \in Nat, captures \in Nat, Desktop
    PROVE  SessionInv'
<1>1. Tasks' /\ \A a \in Apps : slotOf'[a] \in {slotOf[a], None} \/ Launch(a)
  BY TasksHold DEF SessionInv
<1>2. CASE \E a \in Apps : Launch(a)
  BY <1>2, LaunchKeeps
<1>3. CASE InjectGame \/ CancelGameInput
  BY <1>3, InjectKeeps
<1>4. ASSUME ~(\E a \in Apps : Launch(a)), failed = None, UNCHANGED <<router, failed>>,
             NEW s \in {session, [session EXCEPT !.wait = TRUE]}, Settles(s, Scene'),
             captures' = 0 => captures = 0 /\ capturing' \in {FALSE, capturing}
      PROVE  SessionInv'
  <2>1. Leaves(s, Scene')
    BY <1>1, <1>4, DesktopLeaves
  <2> QED BY <1>4, <2>1, SettlesKeep
<1> USE DEF Settles, DesktopOnly, Counted
<1>5. ASSUME NEW a \in Apps, Started(a) \/ Finished(a) \/ Complete(a) \/ Activate(a)
      PROVE  SessionInv'
  <2>1. CASE \E b \in Apps : Launch(b)
    BY <1>2, <2>1
  <2>2. CASE ~(\E b \in Apps : Launch(b))
    <3>1. /\ failed = None /\ UNCHANGED <<router, failed>>
          /\ captures' = captures /\ capturing' = FALSE
      BY <1>5 DEF Started, Finished, Complete, Activate
    <3>2. \/ SceneChanged(session, Scene')
          \/ SceneChanged([session EXCEPT !.wait = TRUE], Scene')
      BY <1>5 DEF Started, Finished, Complete, Activate
    <3> QED BY <1>4, <2>2, <3>1, <3>2
  <2> QED BY <2>1, <2>2
<1>6. CASE LeavePanel \/ BeginCapture \/ EndCapture
  <2>1. CASE \E b \in Apps : Launch(b)
    BY <1>2, <2>1
  <2>2. CASE ~(\E b \in Apps : Launch(b))
    <3>1. failed = None /\ UNCHANGED <<router, failed>>
      BY <1>6 DEF LeavePanel, BeginCapture, EndCapture
    <3>2. captures' = 0 => captures = 0 /\ capturing' = FALSE
      BY <1>6 DEF LeavePanel, BeginCapture, EndCapture
    <3>3. Settles(session, Scene')
      BY <1>6 DEF LeavePanel, BeginCapture, EndCapture
    <3> QED BY <1>4, <2>2, <3>1, <3>2, <3>3
  <2> QED BY <2>1, <2>2
<1>7. CASE ShowDesktop \/ Background
  <2>1. CASE \E b \in Apps : Launch(b)
    BY <1>2, <2>1
  <2>2. /\ failed = None /\ UNCHANGED <<router, failed>> /\ captures' = captures /\ ToDesktop
        /\ apps' = apps /\ slotOf' = slotOf
    BY <1>7 DEF ShowDesktop, Background
  <2>3. CASE active = None /\ ~quickOpen
    <3>1. active' = active /\ quickOpen' = quickOpen /\ capturing' = capturing
          /\ session' = session /\ toRouter' = toRouter /\ homing' \in BOOLEAN
      BY <1>1, <2>2, <2>3 DEF ToDesktop, SessionInv, Tasks
    <3>2. /\ UNCHANGED <<mode, slot, grantee, remote, commandSequence, toSession>>
      BY <2>2 DEF router, policy
    <3>3. /\ Tasks' /\ BeliefIsTrue' /\ Settled' /\ Private' /\ GrantIsForOwner'
      BY <2>2, <3>1, <3>2, SameOwner
    <3>4. Numbered' /\ ModeInFlight' /\ InjectInFlight'
      BY <2>2, <3>1, <3>2 DEF SessionInv, Numbered, ModeInFlight, InjectInFlight
    <3> QED BY <3>1, <3>2, <3>3, <3>4 DEF SessionInv
  <2>4. CASE ~(active = None /\ ~quickOpen) /\ ~(\E b \in Apps : Launch(b))
    <3>1. capturing' = FALSE /\ Settles(session, Scene')
      BY <2>2, <2>4 DEF ToDesktop
    <3> QED BY <1>4, <2>2, <2>4, <3>1
  <2> QED BY <2>1, <2>3, <2>4
<1> QED
  BY <1>2, <1>3, <1>5, <1>6, <1>7 DEF Desktop

-----------------------------------------------------------------------------
(* The session. *)

(* What the session takes from the channel. *)
LEMMA ReadFits ==
    ASSUME SessionInv, failed = None, toSession # <<>>
    PROVE  /\ Tail(toSession) \in Seq(Packets) /\ Head(toSession) \in Packets
           /\ Head(toSession) \in Sent(toSession)
           /\ Sent(toSession) = Sent(Tail(toSession)) \cup {Head(toSession)}
           /\ ModeFits(toRouter, Tail(toSession), session, mode, slot)
           /\ InjectFits(toRouter, Tail(toSession), session, remote)
           /\ Head(toSession).type = "Ack" =>
                ~Has(toRouter, {"Mode"}) /\ ~Has(Tail(toSession), {"Ack"})
           /\ Head(toSession).type \in Answers =>
                /\ ~Has(toRouter, {"Inject"}) /\ remote = 0 /\ ~Has(Tail(toSession), Answers)
                /\ Head(toSession).seq = session.remote
<1> DEFINE r == Tail(toSession)
           p == Head(toSession)
<1>1. /\ r \in Seq(Packets) /\ p \in Packets /\ p \in Sent(toSession)
      /\ Sent(toSession) = Sent(r) \cup {p}
      /\ \A T : Has(toSession, T) <=> Has(r, T) \/ p.type \in T
      /\ \A T : Once(toSession, T) => Once(r, T) /\ (p.type \in T => ~Has(r, T))
  BY Fitting, Rest
<1>2. /\ ModeFits(toRouter, toSession, session, mode, slot)
      /\ InjectFits(toRouter, toSession, session, remote)
  BY Fitting
<1> HIDE DEF r, p
<1>3. ModeFits(toRouter, r, session, mode, slot)
  BY <1>1, <1>2 DEF ModeFits
<1>4. InjectFits(toRouter, r, session, remote)
  BY <1>1, <1>2 DEF InjectFits
<1>5. p.type = "Ack" => ~Has(toRouter, {"Mode"}) /\ ~Has(r, {"Ack"})
  BY <1>1, <1>2 DEF ModeFits
<1>6. p.type \in Answers =>
        /\ ~Has(toRouter, {"Inject"}) /\ remote = 0 /\ ~Has(r, Answers) /\ p.seq = session.remote
  BY <1>1, <1>2 DEF InjectFits
<1> QED
  BY <1>1, <1>3, <1>4, <1>5, <1>6 DEF r, p

(* What ReadInput leaves alone. *)
LEMMA Reading ==
    ASSUME ReadInput
    PROVE  /\ failed = None /\ toSession # <<>> /\ toSession' = Tail(toSession)
           /\ UNCHANGED <<mode, slot, remote, commandSequence, grantee, captures>>
           /\ UNCHANGED <<pad, presses, backlog, input, deferred, waiting, ownerPending,
                          syncing, game, ui, pads, scenes, injects>>
BY DEF ReadInput, SessionOnly, kernel, policy, bounds

(* Only the keys, or the injection in force, change. *)
LEMMA KeysKeep ==
    ASSUME SessionInv, failed = None, failed' = None, toSession # <<>>,
           UNCHANGED <<mode, slot, remote, commandSequence, grantee, captures, toRouter>>,
           UNCHANGED <<active, apps, slotOf, quickOpen, homing, capturing>>,
           toSession' \in {toSession, Tail(toSession)},
           session' \in SessionType, session'.mode = session.mode,
           session'.slot = session.slot, session'.requested = session.requested,
           session'.asked = session.asked, session'.agreed = session.agreed,
           session'.ready = session.ready, session'.sequence = session.sequence,
           session'.modeSequence = session.modeSequence, session'.wanted = session.wanted,
           InjectFits(toRouter, toSession', session', remote)
    PROVE  SessionInv'
<1>1. homing' \in BOOLEAN
  BY DEF SessionInv, Tasks
<1>2. /\ Tasks' /\ BeliefIsTrue' /\ Settled' /\ Private' /\ GrantIsForOwner'
  BY <1>1, SameOwner
<1>3. toSession' \in Seq(Packets) /\ ModeFits(toRouter, toSession', session', mode, slot)
  <2>1. ModeFits(toRouter, toSession', session, mode, slot) /\ toSession' \in Seq(Packets)
    BY Fitting, ReadFits
  <2> QED BY <2>1 DEF ModeFits, InFlight
<1>4. Numbered' /\ ModeInFlight' /\ InjectInFlight'
  BY <1>3 DEF SessionInv, Numbered, ModeInFlight, InjectInFlight
<1> QED
  BY <1>2, <1>4 DEF SessionInv

(* A State packet changes the keys alone. *)
LEMMA StateKeeps ==
    ASSUME SessionInv, ReadInput, Head(toSession).type = "State", ReceiveState(Head(toSession))
    PROVE  SessionInv' /\ failed' = None
<1> DEFINE p == Head(toSession)
<1>1. /\ failed = None /\ failed' = None /\ toSession # <<>> /\ toSession' = Tail(toSession)
      /\ UNCHANGED <<mode, slot, remote, commandSequence, grantee, captures, toRouter>>
      /\ UNCHANGED <<active, apps, slotOf, quickOpen, homing, capturing>>
  BY Reading DEF ReceiveState, desktop
<1>2. p \in Packets /\ p.type = "State"
  BY <1>1, ReadFits
<1>3. p.sample \in Samples
  BY <1>2 DEF Packets, Answers
<1>4. session \in SessionType
  BY DEF SessionInv
<1>5. \/ session' = session
      \/ session' = [session EXCEPT !.keys = p.sample, !.wait = @ /\ p.sample # 0]
  BY DEF ReceiveState
<1> HIDE DEF p
<1>6. /\ session' \in SessionType /\ session'.mode = session.mode
      /\ session'.slot = session.slot /\ session'.requested = session.requested
      /\ session'.asked = session.asked /\ session'.agreed = session.agreed
      /\ session'.ready = session.ready /\ session'.sequence = session.sequence
      /\ session'.modeSequence = session.modeSequence /\ session'.wanted = session.wanted
      /\ session'.remote = session.remote
  <2>1. (session.wait /\ p.sample # 0) \in BOOLEAN
    OBVIOUS
  <2> QED BY <1>3, <1>4, <1>5, <2>1 DEF SessionType
<1>7. InjectFits(toRouter, toSession', session', remote)
  BY <1>1, <1>6, ReadFits DEF InjectFits
<1> QED
  BY <1>1, <1>6, <1>7, KeysKeep

(* An answer is to the injection in force: it is never a protocol error. *)
LEMMA AnswerKeeps ==
    ASSUME SessionInv, ReadInput, Head(toSession).type \in Answers,
           ReceiveAnswer(Head(toSession))
    PROVE  SessionInv' /\ failed' = None /\ got' = got
<1>1. /\ failed = None /\ toSession # <<>> /\ toSession' = Tail(toSession)
      /\ UNCHANGED <<mode, slot, remote, commandSequence, grantee, captures>>
  BY Reading
<1>2. /\ ~Has(toRouter, {"Inject"}) /\ remote = 0 /\ ~Has(toSession', Answers)
      /\ Head(toSession).seq = session.remote
  BY <1>1, ReadFits
<1>3. /\ session' = [session EXCEPT !.remote = 0]
      /\ UNCHANGED <<toRouter, failed, got, active, apps, slotOf, quickOpen, homing, capturing>>
  BY <1>2 DEF ReceiveAnswer, desktop
<1>4. /\ session' \in SessionType /\ session'.mode = session.mode
      /\ session'.slot = session.slot /\ session'.requested = session.requested
      /\ session'.asked = session.asked /\ session'.agreed = session.agreed
      /\ session'.ready = session.ready /\ session'.sequence = session.sequence
      /\ session'.modeSequence = session.modeSequence /\ session'.wanted = session.wanted
  BY <1>3 DEF SessionInv, SessionType
<1>5. InjectFits(toRouter, toSession', session', remote)
  <2>1. \A c \in Sent(toRouter) : c.type # "Inject"
    BY <1>2 DEF Has
  <2>2. \A p \in Sent(toSession') : p.type \notin Answers
    BY <1>2 DEF Has
  <2>3. Once(toRouter, {"Inject"}) /\ Once(toSession', Answers)
    BY <1>1, ReadFits DEF InjectFits
  <2> QED BY <1>2, <2>1, <2>2, <2>3 DEF InjectFits
<1> QED
  BY <1>1, <1>3, <1>4, <1>5, KeysKeep

(* An Ack is of the Mode in flight: it is never a protocol error, and is credited truly. *)
LEMMA AckKeeps ==
    ASSUME SessionInv, commandSequence \in Nat, ReadInput, Head(toSession).type = "Ack",
           ReceiveAck(Head(toSession))
    PROVE  SessionInv' /\ failed' = None /\ got' = got
<1> DEFINE p == Head(toSession)
           s == Credited
<1>1. /\ failed = None /\ toSession # <<>> /\ toSession' = Tail(toSession)
      /\ UNCHANGED <<mode, slot, remote, commandSequence, grantee, captures>>
  BY Reading
<1>2. /\ InFlight(session) /\ p.seq = session.modeSequence /\ p.mode = session.requested
      /\ p.slot = session.wanted /\ mode = session.requested /\ slot = session.wanted
  <2>1. p \in Sent(toSession) /\ p.type = "Ack"
    BY <1>1, ReadFits
  <2> QED BY <1>1, <2>1, Fitting DEF ModeFits
<1>3. /\ UNCHANGED <<failed, got, active, apps, slotOf, quickOpen, homing, capturing>>
      /\ Settle(Credited, Scene, <<>>)
  BY <1>2 DEF ReceiveAck, Acknowledged, desktop
<1>4. Scene' = Scene
  BY <1>3 DEF Scene, Foreground, Alive
<1>5. Tasks'
  BY <1>3 DEF SessionInv, Tasks, TasksInSlots
<1>6. /\ s \in SessionType /\ s.modeSequence = session.modeSequence
      /\ s.sequence = session.sequence /\ s.requested = None /\ s.ready = session.ready
      /\ s.mode = mode /\ s.slot = slot /\ s.remote = session.remote
      /\ s.asked = session.asked /\ s.agreed = session.agreed
  BY <1>2 DEF SessionInv, SessionType, Credited
<1> HIDE DEF s, p
<1>7. ModeFits(toRouter, toSession', s, mode, slot)
  <2>1. ~Has(toRouter, {"Mode"}) /\ ~Has(toSession', {"Ack"})
    BY <1>1, ReadFits
  <2>2. /\ \A c \in Sent(toRouter) : c.type # "Mode"
        /\ \A m \in Sent(toSession') : m.type # "Ack"
    BY <2>1 DEF Has
  <2>3. Once(toRouter, {"Mode"}) /\ Once(toSession', {"Ack"})
    BY <1>1, ReadFits DEF ModeFits
  <2> QED BY <2>1, <2>2, <2>3 DEF ModeFits
<1>8. InjectFits(toRouter, toSession', s, remote)
  BY <1>1, <1>6, ReadFits DEF InjectFits
<1>9. ASSUME captures' = 0
      PROVE  /\ ~capturing' /\ Scene'.privacy /\ s.agreed.privacy
             /\ s.asked # None => s.asked.privacy /\ ~s.ready
             /\ Grants(slotOf', toRouter, mode, slot, grantee)
  <2>1. Private /\ GrantIsForOwner /\ captures = 0
    BY <1>1, <1>9 DEF SessionInv
  <2>2. /\ ~capturing /\ session.agreed.privacy
        /\ session.asked # None => session.asked.privacy /\ ~session.ready
    BY <2>1 DEF Private
  <2>3. ~capturing' /\ Scene'.privacy
    BY <1>3, <1>5, <2>2, SceneOfTasks
  <2>4. Grants(slotOf', toRouter, mode, slot, grantee)
    BY <1>3, <2>1 DEF GrantIsForOwner, Grants
  <2> QED BY <1>6, <2>2, <2>3, <2>4
<1>10. toSession' \in Seq(Packets) /\ Scene' \in Scenes
  BY <1>1, <1>5, ReadFits, SceneOfTasks
<1>11. Leaves(s, Scene')
  BY <1>1, <1>3, <1>5, <1>6, <1>7, <1>8, <1>9, <1>10 DEF Leaves
<1>12. Settles(s, Scene')
  BY <1>3, <1>4 DEF Settles, s
<1> QED
  BY <1>1, <1>3, <1>11, <1>12, SettlesKeep

(* A system action leaves the owner of record to nobody. *)
LEMMA ActionKeeps ==
    ASSUME SessionInv, commandSequence \in Nat, ReadInput, ReceivePanel \/ ReceiveHome
    PROVE  SessionInv' /\ failed' = None /\ got' = got
<1>1. /\ failed = None /\ toSession # <<>> /\ toSession' = Tail(toSession)
      /\ UNCHANGED <<mode, slot, remote, commandSequence, grantee, captures>>
  BY Reading
<1>2. /\ Unowned \in SessionType /\ Same(Unowned) /\ Unowned.mode = None
  BY DEF SessionInv, SessionType, Unowned, Same
<1>3. failed' = None /\ got' = got /\ slotOf' = slotOf
  BY <1>1 DEF ReceivePanel, ReceiveHome
<1>4. Tasks' /\ Settles(Unowned, Scene') /\ capturing' \in {FALSE, capturing}
  <2>1. CASE ReceivePanel
    BY <2>1, TasksHold DEF SessionInv, ReceivePanel, Settles
  <2>2. CASE ReceiveHome
    <3>1. UNCHANGED <<active, apps, slotOf, quickOpen, capturing>> /\ homing' = TRUE
          /\ Settle(Unowned, Scene, <<>>)
      BY <2>2 DEF ReceiveHome
    <3>2. Scene' = Scene
      BY <3>1 DEF Scene, Foreground, Alive
    <3>3. Tasks'
      BY <3>1 DEF SessionInv, Tasks, TasksInSlots
    <3> QED BY <3>1, <3>2, <3>3 DEF Settles
  <2> QED BY <2>1, <2>2
<1>5. /\ toSession' \in Seq(Packets) /\ ModeFits(toRouter, toSession', session, mode, slot)
      /\ InjectFits(toRouter, toSession', session, remote)
  BY <1>1, ReadFits
<1>6. Leaves(Unowned, Scene')
  BY <1>1, <1>2, <1>3, <1>4, <1>5, HandlerLeaves
<1> QED
  BY <1>3, <1>4, <1>6, SettlesKeep

(* Every step of the session. *)
LEMMA SessionKeeps ==
    ASSUME SessionInv, commandSequence \in Nat, Session
    PROVE  SessionInv'
<1>1. CASE ReadInput
  BY <1>1, StateKeeps, AnswerKeeps, AckKeeps, ActionKeeps DEF ReadInput, Answers
<1>2. CASE Poll
  <2>1. /\ failed = None /\ failed' = None
        /\ UNCHANGED <<mode, slot, remote, commandSequence, grantee, captures, toRouter>>
        /\ UNCHANGED <<active, apps, slotOf, quickOpen, homing, capturing, toSession>>
        /\ session' = [session EXCEPT !.wait = FALSE]
    BY <1>2 DEF Poll, router, policy, desktop, bounds
  <2>2. /\ session' \in SessionType /\ Same(session') /\ session'.mode = session.mode
    BY <2>1 DEF SessionInv, SessionType, Same
  <2>3. homing' \in BOOLEAN
    BY <2>1 DEF SessionInv, Tasks
  <2>4. /\ Tasks' /\ BeliefIsTrue' /\ Settled' /\ Private' /\ GrantIsForOwner'
    BY <2>1, <2>2, <2>3, SameOwner DEF Same
  <2>5. ModeFits(toRouter', toSession', session', mode', slot')
        /\ InjectFits(toRouter', toSession', session', remote')
    BY <2>1, <2>2, Fitting DEF ModeFits, InjectFits, InFlight, Same
  <2>6. Numbered' /\ ModeInFlight' /\ InjectInFlight'
    BY <2>1, <2>2, <2>5 DEF SessionInv, Numbered, ModeInFlight, InjectInFlight, Same
  <2> QED BY <2>1, <2>2, <2>4, <2>6 DEF SessionInv, Same
<1>3. CASE PolicyReply
  <2> DEFINE s == [session EXCEPT !.agreed = session.asked, !.asked = None]
  <2>1. /\ failed = None /\ failed' = None /\ session.asked # None
        /\ UNCHANGED <<mode, slot, remote, commandSequence, grantee, captures>>
        /\ UNCHANGED <<active, apps, slotOf, quickOpen, homing, capturing, toSession>>
        /\ Settle(s, Scene, <<>>)
    BY <1>3 DEF PolicyReply, router, policy, desktop, bounds
  <2>2. Scene' = Scene
    BY <2>1 DEF Scene, Foreground, Alive
  <2>3. Tasks'
    BY <2>1 DEF SessionInv, Tasks, TasksInSlots
  <2>4. session \in SessionType /\ session.asked \in Scenes
    BY <2>1 DEF SessionInv, SessionType
  <2>5. /\ s \in SessionType /\ s.modeSequence = session.modeSequence
        /\ s.sequence = session.sequence /\ s.requested = session.requested
        /\ s.ready = session.ready /\ s.wanted = session.wanted
        /\ s.mode = session.mode /\ s.slot = session.slot /\ s.remote = session.remote
        /\ s.asked = None /\ s.agreed = session.asked
    BY <2>4 DEF SessionType
  <2> HIDE DEF s
  <2>6. ModeFits(toRouter, toSession', s, mode, slot)
        /\ InjectFits(toRouter, toSession', s, remote)
    BY <2>1, <2>5, Fitting DEF ModeFits, InjectFits, InFlight
  <2>7. ASSUME captures' = 0
        PROVE  /\ ~capturing' /\ Scene'.privacy /\ s.agreed.privacy
               /\ Grants(slotOf', toRouter, mode, slot, grantee)
    <3>1. Private /\ GrantIsForOwner /\ captures = 0
      BY <2>1, <2>7 DEF SessionInv
    <3>2. ~capturing /\ session.asked.privacy
      BY <2>1, <3>1 DEF Private
    <3>3. ~capturing' /\ Scene'.privacy
      BY <2>1, <2>3, <3>2, SceneOfTasks
    <3>4. Grants(slotOf', toRouter, mode, slot, grantee)
      BY <2>1, <3>1 DEF GrantIsForOwner, Grants
    <3> QED BY <2>5, <3>2, <3>3, <3>4
  <2>8. toSession' \in Seq(Packets) /\ Scene' \in Scenes
    BY <2>1, <2>3, Fitting, SceneOfTasks
  <2>9. Leaves(s, Scene')
    BY <2>1, <2>3, <2>5, <2>6, <2>7, <2>8, Fitting DEF Leaves
  <2>10. Settles(s, Scene')
    BY <2>1, <2>2 DEF Settles
  <2> QED BY <2>9, <2>10, SettlesKeep
<1>4. CASE Deadline
  <2>1. /\ failed' # None /\ session' = [session EXCEPT !.ready = FALSE, !.remote = 0]
        /\ UNCHANGED <<mode, slot, commandSequence, grantee, captures, toRouter, toSession>>
        /\ UNCHANGED <<active, apps, slotOf, quickOpen, homing, capturing>>
    BY <1>4, OwnershipAssumption DEF Deadline, Fail, router, policy, desktop, bounds
  <2>2. /\ session' \in SessionType /\ session'.mode = session.mode /\ ~session'.ready
        /\ session'.slot = session.slot /\ session'.requested = session.requested
        /\ session'.asked = session.asked /\ session'.agreed = session.agreed
        /\ session'.sequence = session.sequence /\ session'.modeSequence = session.modeSequence
    BY <2>1 DEF SessionInv, SessionType
  <2>3. homing' \in BOOLEAN
    BY <2>1 DEF SessionInv, Tasks
  <2>4. /\ Tasks' /\ BeliefIsTrue' /\ Settled' /\ Private' /\ GrantIsForOwner'
    BY <2>1, <2>2, <2>3, SameOwner
  <2>5. Numbered' /\ ModeInFlight' /\ InjectInFlight'
    BY <2>1, <2>2 DEF SessionInv, Numbered, ModeInFlight, InjectInFlight
  <2> QED BY <2>1, <2>2, <2>4, <2>5 DEF SessionInv
<1> QED
  BY <1>1, <1>2, <1>3, <1>4 DEF Session

-----------------------------------------------------------------------------
(* What a tick says. *)

RouterTypes ==
    /\ pad \in Samples /\ presses \in 0..MaxPresses
    /\ backlog \in Seq(Samples \cup {Dropped}) /\ Len(backlog) <= MaxBacklog + 1
    /\ input \in Samples /\ deferred \in Samples /\ ui \in Samples
    /\ game \in Samples \cup {Tool}
    /\ mode \in Modes /\ slot \in Slots
    /\ waiting \in BOOLEAN /\ ownerPending \in BOOLEAN /\ syncing \in BOOLEAN
    /\ commandSequence \in Nat /\ remote \in 0..commandSequence
    /\ pads \in [Slots -> Samples \cup {Tool}]
    /\ got \in [Presses -> SUBSET (Apps \cup {"ui"})] /\ grantee \in Apps \cup {None}

(* The presses that a tick with the sample in may hand to the owner. *)
Given(in) == {d \in Presses : d = deferred \/ (d = in /\ ~waiting)}

(* n is q and what a tick, or a change of owner, says after it: at most one answer *)
(* to the injection in force, neutral samples, and presses of S.                   *)
Says(p, e, S) ==
    \/ e /\ p.type \in Answers /\ p.seq = remote
    \/ p.type \in {"Panel", "Home"}
    \/ p.type = "State" /\ (p.sample = 0 \/ (p.mode = mode /\ p.sample \in S))

Follows(q, n, e, S) ==
    /\ n \in Seq(Packets) /\ Sent(q) \subseteq Sent(n)
    /\ Has(n, {"Ack"}) <=> Has(q, {"Ack"})
    /\ Once(q, {"Ack"}) => Once(n, {"Ack"})
    /\ Has(n, Answers) <=> Has(q, Answers) \/ e
    /\ Once(q, Answers) /\ (e => ~Has(q, Answers)) => Once(n, Answers)
    /\ \A p \in Sent(n) : p \in Sent(q) \/ Says(p, e, S)

(* The end of an injection is said once. *)
LEMMA FollowsDone ==
    ASSUME NEW q \in Seq(Packets), NEW e \in BOOLEAN, NEW S, remote \in Nat
    PROVE  Follows(q, q \o Done(e), e, S)
<1>1. CASE e
  <2> DEFINE p == Answer("InjectDone", remote)
  <2>1. p \in Packets /\ p.type = "InjectDone" /\ p.seq = remote
    BY DEF Answer, Packets, Answers
  <2>2. Done(e) = <<p>>
    BY <1>1 DEF Done
  <2> HIDE DEF p
  <2>3. /\ q \o <<p>> \in Seq(Packets) /\ Sent(q \o <<p>>) = Sent(q) \cup {p}
        /\ \A T : Has(q \o <<p>>, T) <=> Has(q, T) \/ p.type \in T
        /\ \A T : Once(q, T) /\ (p.type \in T => ~Has(q, T)) => Once(q \o <<p>>, T)
    BY <2>1, Appended
  <2>4. Once(q, {"Ack"}) => Once(q \o <<p>>, {"Ack"})
    BY <2>1, <2>3
  <2>5. (Has(q \o <<p>>, {"Ack"}) <=> Has(q, {"Ack"})) /\ Has(q \o <<p>>, Answers)
    BY <2>1, <2>3 DEF Answers
  <2>6. Once(q, Answers) /\ ~Has(q, Answers) => Once(q \o <<p>>, Answers)
    BY <2>3
  <2>7. \A m \in Sent(q \o <<p>>) : m \in Sent(q) \/ Says(m, e, S)
    BY <1>1, <2>1, <2>3 DEF Says, Answers
  <2> QED BY <1>1, <2>2, <2>3, <2>4, <2>5, <2>6, <2>7 DEF Follows
<1>2. CASE ~e
  <2>1. q \o Done(e) = q
    BY <1>2, ConcatEmptySeq DEF Done
  <2> QED BY <1>2, <2>1 DEF Follows
<1> QED
  BY <1>1, <1>2

(* A packet that is no Ack and no answer may follow. *)
LEMMA FollowsOne ==
    ASSUME NEW q, NEW n, NEW e, NEW S, Follows(q, n, e, S),
           NEW p \in Packets, p.type \notin Answers, Says(p, FALSE, S)
    PROVE  Follows(q, n \o <<p>>, e, S)
<1>1. /\ n \o <<p>> \in Seq(Packets) /\ Sent(n \o <<p>>) = Sent(n) \cup {p}
      /\ \A T : Has(n \o <<p>>, T) <=> Has(n, T) \/ p.type \in T
      /\ \A T : Once(n, T) /\ (p.type \in T => ~Has(n, T)) => Once(n \o <<p>>, T)
  BY Appended DEF Follows
<1>2. p.type # "Ack" /\ p.type \notin Answers /\ Says(p, e, S)
  BY DEF Says
<1>3. /\ Has(n \o <<p>>, {"Ack"}) <=> Has(n, {"Ack"})
      /\ Has(n \o <<p>>, Answers) <=> Has(n, Answers)
      /\ Once(n, {"Ack"}) => Once(n \o <<p>>, {"Ack"})
      /\ Once(n, Answers) => Once(n \o <<p>>, Answers)
  BY <1>1, <1>2
<1>4. \A m \in Sent(n \o <<p>>) : m \in Sent(q) \/ Says(m, e, S)
  BY <1>1, <1>2 DEF Follows
<1> QED
  BY <1>1, <1>3, <1>4 DEF Follows

(* So may a neutral State, or a State with a press given to the desktop. *)
LEMMA FollowsState ==
    ASSUME NEW q, NEW n, NEW e, NEW S, Follows(q, n, e, S), NEW k \in Nat, NEW m \in Modes,
           NEW x \in Samples, x = 0 \/ (m = mode /\ x \in S)
    PROVE  Follows(q, n \o <<State(k, m, x)>>, e, S)
<1> DEFINE p == State(k, m, x)
<1>1. p \in Packets /\ p.type = "State" /\ p.sample = x /\ p.mode = m
  BY DEF State, Packets
<1> HIDE DEF p
<1>2. p.type \notin Answers /\ Says(p, FALSE, S)
  BY <1>1 DEF Says, Answers
<1>3. Follows(q, n \o <<p>>, e, S)
  BY <1>1, <1>2, FollowsOne
<1> QED
  BY <1>3 DEF p

(* What a tick says: at most one answer, and presses that it was given. *)
LEMMA TickFollows ==
    ASSUME RouterTypes, NEW in \in Samples, NEW ended \in BOOLEAN, Tick(in, ended),
           commandSequence' \in Nat, toSession \in Seq(Packets)
    PROVE  \E e \in BOOLEAN :
             /\ e => remote # 0
             /\ remote' = IF e THEN 0 ELSE remote
             /\ Follows(toSession, toSession', e, IF mode = "ui" THEN Given(in) ELSE {})
<1> DEFINE S == IF mode = "ui" THEN Given(in) ELSE {}
<1>1. remote \in Nat /\ (remote # 0) \in BOOLEAN /\ mode \in Modes /\ 0 \in Samples
  BY DEF RouterTypes, Samples
<1>2. ended => remote # 0
  BY DEF Tick
<1>3. CASE Withholds(in, ended) /\ End(ended)
  <2>1. toSession' = toSession \o Done(ended) /\ remote' = IF ended THEN 0 ELSE remote
    BY <1>3 DEF Withholds, End
  <2>2. Follows(toSession, toSession', ended, S)
    BY <1>1, <2>1, FollowsDone
  <2> QED BY <1>2, <2>1, <2>2
<1>4. ASSUME NEW out \in Samples, NEW pulse \in BOOLEAN,
             Delivers(in, out, pulse, ended) /\ End(ended)
      PROVE  Follows(toSession, toSession', ended, S) /\ remote' = IF ended THEN 0 ELSE remote
  <2> DEFINE click == IF pulse THEN deferred ELSE 0
             n == toSession \o Done(ended)
  <2>1. Follows(toSession, n, ended, S)
    BY <1>1, FollowsDone
  <2>2. remote' = IF ended THEN 0 ELSE remote
    BY <1>4 DEF End
  <2>3. /\ Acts(in) /\ out \in {in, 0} /\ (pulse => in = 0 /\ deferred # 0)
        /\ \/ mode = "game" /\ toSession' = n
           \/ /\ mode = "ui"
              /\ toSession' = n
                    \o (IF pulse THEN <<State(commandSequence', mode, click)>> ELSE <<>>)
                    \o (IF pulse \/ out # ui
                          THEN <<State(commandSequence', mode, out)>> ELSE <<>>)
    BY <1>4 DEF Delivers
  <2>4. CASE mode = "game" /\ toSession' = n
    BY <2>1, <2>2, <2>4
  <2>5. CASE /\ mode = "ui"
             /\ toSession' = n
                   \o (IF pulse THEN <<State(commandSequence', mode, click)>> ELSE <<>>)
                   \o (IF pulse \/ out # ui THEN <<State(commandSequence', mode, out)>> ELSE <<>>)
    <3> DEFINE n2 == n \o (IF pulse THEN <<State(commandSequence', mode, click)>> ELSE <<>>)
    <3>1. out \in Samples /\ (out = 0 \/ out \in S)
      <4>1. out # 0 => out = in /\ ~waiting
        BY <2>3 DEF Acts
      <4>2. out # 0 => out \in Presses
        BY DEF Samples
      <4> QED BY <2>5, <4>1, <4>2 DEF Given
    <3>2. click \in Samples /\ (click = 0 \/ click \in S)
      <4>1. deferred \in Samples
        BY DEF RouterTypes
      <4>2. deferred # 0 => deferred \in Given(in)
        BY <4>1 DEF Samples, Given
      <4> QED BY <1>1, <2>5, <4>1, <4>2
    <3> HIDE DEF S, click, n
    <3>3. Follows(toSession, n2, ended, S)
      <4>1. CASE pulse
        BY <1>1, <2>1, <3>2, <4>1, FollowsState
      <4>2. CASE ~pulse
        <5>1. n \in Seq(Packets)
          BY <2>1 DEF Follows
        <5>2. n2 = n
          BY <4>2, <5>1, ConcatEmptySeq
        <5> QED BY <2>1, <5>2
      <4> QED BY <4>1, <4>2
    <3>4. CASE pulse \/ out # ui
      <4>1. toSession' = n2 \o <<State(commandSequence', mode, out)>>
        BY <2>5, <3>4
      <4> HIDE DEF n2
      <4>2. Follows(toSession, n2 \o <<State(commandSequence', mode, out)>>, ended, S)
        BY <1>1, <3>1, <3>3, FollowsState
      <4> QED BY <2>2, <4>1, <4>2
    <3>5. CASE ~(pulse \/ out # ui)
      <4>1. n2 \in Seq(Packets)
        BY <3>3 DEF Follows
      <4>2. toSession' = n2
        <5>1. toSession' = n2 \o <<>>
          BY <2>5, <3>5
        <5> HIDE DEF n2
        <5> QED BY <4>1, <5>1, ConcatEmptySeq
      <4> QED BY <2>2, <3>3, <4>2
    <3> QED BY <3>4, <3>5
  <2> QED BY <2>3, <2>4, <2>5
<1>5. CASE Requests(in) /\ End(remote # 0)
  <2> DEFINE n == toSession \o Done(remote # 0)
             n2 == n \o NeutralState(commandSequence', mode)
  <2>1. PICK t \in {"Panel", "Home"} : toSession' = n2 \o <<Action(commandSequence', t)>>
    BY <1>5 DEF Requests
  <2>2. Follows(toSession, n, remote # 0, S)
    BY <1>1, FollowsDone
  <2> HIDE DEF S, n
  <2>3. Follows(toSession, n2, remote # 0, S)
    BY <1>1, <2>2, FollowsState DEF NeutralState
  <2> HIDE DEF n2
  <2> DEFINE p == Action(commandSequence', t)
  <2>4. p \in Packets /\ p.type = t
    BY DEF Action, Packets
  <2>5. p.type \notin Answers /\ Says(p, FALSE, S)
    BY <2>4 DEF Says, Answers
  <2> HIDE DEF p
  <2>6. Follows(toSession, n2 \o <<p>>, remote # 0, S)
    BY <2>3, <2>4, <2>5, FollowsOne
  <2>7. remote' = IF remote # 0 THEN 0 ELSE remote
    BY <1>5 DEF End
  <2>8. Follows(toSession, toSession', remote # 0, S)
    BY <2>1, <2>6 DEF p
  <2> QED BY <1>1, <2>7, <2>8 DEF S
<1> QED
  BY <1>2, <1>3, <1>4, <1>5 DEF Tick

(* What is in flight still fits after what a tick says. *)
LEMMA FollowFits ==
    ASSUME NEW q, NEW r, NEW s, NEW m, NEW sl, NEW n, NEW e \in BOOLEAN, NEW S,
           e => remote # 0, ModeFits(q, r, s, m, sl), InjectFits(q, r, s, remote),
           Follows(r, n, e, S)
    PROVE  ModeFits(q, n, s, m, sl) /\ InjectFits(q, n, s, IF e THEN 0 ELSE remote)
<1>1. \A p \in Sent(n) : p.type = "Ack" => p \in Sent(r)
  BY DEF Follows, Says, Answers
<1>2. ModeFits(q, n, s, m, sl)
  BY <1>1 DEF ModeFits, Follows
<1>3. CASE e
  <2>1. ~Has(q, {"Inject"}) /\ ~Has(r, Answers) /\ remote = s.remote /\ remote # 0
    BY <1>3 DEF InjectFits
  <2>2. \A p \in Sent(n) : p.type \in Answers => p.seq = remote
    BY <2>1 DEF Follows, Says, Has, Answers
  <2>3. Once(n, Answers) /\ Once(q, {"Inject"})
    BY <2>1 DEF Follows, InjectFits
  <2>4. \A c \in Sent(q) : c.type # "Inject"
    BY <2>1 DEF Has
  <2> QED BY <1>2, <1>3, <2>1, <2>2, <2>3, <2>4 DEF InjectFits
<1>4. CASE ~e
  <2>1. \A p \in Sent(n) : p.type \in Answers => p \in Sent(r)
    BY <1>4 DEF Follows, Says, Answers
  <2>2. Once(n, Answers) /\ (Has(n, Answers) <=> Has(r, Answers))
    BY <1>4 DEF Follows, InjectFits
  <2> QED BY <1>2, <1>4, <2>1, <2>2 DEF InjectFits
<1> QED
  BY <1>3, <1>4

-----------------------------------------------------------------------------
(* The router, for the session. *)

(* What the router takes from the channel. *)
LEMMA TakenFits ==
    ASSUME SessionInv, failed = None, commandSequence \in Nat, toRouter # <<>>
    PROVE  /\ Head(toRouter) \in Commands /\ Tail(toRouter) \in Seq(Commands)
           /\ Head(toRouter) \in Sent(toRouter)
           /\ Sent(toRouter) = Sent(Tail(toRouter)) \cup {Head(toRouter)}
           /\ Head(toRouter).seq \in Nat /\ Head(toRouter).seq # 0
           /\ Head(toRouter).seq <= session.sequence /\ commandSequence <= Head(toRouter).seq
           /\ Increasing(Tail(toRouter), Head(toRouter).seq, session.sequence)
           /\ ModeFits(Tail(toRouter), toSession, session, mode, slot)
           /\ InjectFits(Tail(toRouter), toSession, session, remote)
           /\ Head(toRouter).type = "Mode" =>
                /\ InFlight(session) /\ Head(toRouter).seq = session.modeSequence
                /\ Head(toRouter).mode = session.requested
                /\ Head(toRouter).slot = session.wanted
                /\ ~Has(Tail(toRouter), {"Mode"}) /\ ~Has(toSession, {"Ack"})
           /\ Head(toRouter).type = "Inject" =>
                /\ remote = 0 /\ Head(toRouter).seq = session.remote
                /\ ~Has(Tail(toRouter), {"Inject"}) /\ ~Has(toSession, Answers)
<1> DEFINE q == Tail(toRouter)
           c == Head(toRouter)
<1>1. /\ toRouter \in Seq(Commands) /\ session.sequence \in Nat
      /\ Increasing(toRouter, commandSequence, session.sequence)
      /\ ModeFits(toRouter, toSession, session, mode, slot)
      /\ InjectFits(toRouter, toSession, session, remote)
  BY Fitting DEF SessionInv, SessionType
<1>2. /\ q \in Seq(Commands) /\ c \in Commands /\ c \in Sent(toRouter)
      /\ Sent(toRouter) = Sent(q) \cup {c}
      /\ \A T : Has(toRouter, T) <=> Has(q, T) \/ c.type \in T
      /\ \A T : Once(toRouter, T) => Once(q, T) /\ (c.type \in T => ~Has(q, T))
  BY <1>1, Rest
<1>3. Increasing(q, c.seq, session.sequence) /\ c.seq \in (commandSequence + 1)..session.sequence
  BY <1>1, IncreasingTaken
<1>4. /\ c.seq \in Nat /\ c.seq # 0 /\ c.seq <= session.sequence /\ commandSequence <= c.seq
  BY <1>1, <1>3
<1> HIDE DEF q, c
<1>5. ModeFits(q, toSession, session, mode, slot)
  BY <1>1, <1>2 DEF ModeFits
<1>6. InjectFits(q, toSession, session, remote)
  BY <1>1, <1>2 DEF InjectFits
<1>7. c.type = "Mode" =>
        /\ InFlight(session) /\ c.seq = session.modeSequence
        /\ c.mode = session.requested /\ c.slot = session.wanted
        /\ ~Has(q, {"Mode"}) /\ ~Has(toSession, {"Ack"})
  BY <1>1, <1>2 DEF ModeFits
<1>8. c.type = "Inject" =>
        /\ remote = 0 /\ c.seq = session.remote
        /\ ~Has(q, {"Inject"}) /\ ~Has(toSession, Answers)
  BY <1>1, <1>2 DEF InjectFits
<1> QED
  BY <1>2, <1>3, <1>4, <1>5, <1>6, <1>7, <1>8 DEF q, c

(* A step of the router that leaves the owner alone. *)
LEMMA RouterSame ==
    ASSUME SessionInv, UNCHANGED <<session, failed, mode, slot, grantee, captures>>,
           UNCHANGED <<active, apps, slotOf, quickOpen, homing, capturing>>,
           commandSequence' <= session.sequence, toRouter' \in Seq(Commands),
           Increasing(toRouter', commandSequence', session.sequence),
           \A c \in Sent(toRouter') : c.type = "Mode" => c \in Sent(toRouter),
           toSession' \in Seq(Packets),
           failed = None => /\ ModeFits(toRouter', toSession', session, mode, slot)
                            /\ InjectFits(toRouter', toSession', session, remote')
    PROVE  SessionInv'
<1>1. homing' \in BOOLEAN
  BY DEF SessionInv, Tasks
<1>2. /\ Tasks' /\ BeliefIsTrue' /\ Settled' /\ Private' /\ GrantIsForOwner'
  BY <1>1, SameOwner
<1>3. Numbered' /\ ModeInFlight' /\ InjectInFlight'
  BY DEF Numbered, ModeInFlight, InjectInFlight
<1> QED
  BY <1>2, <1>3 DEF SessionInv

(* A tick. *)
LEMMA TickKeeps ==
    ASSUME SessionInv, RouterTypes, failed = None, NEW in \in Samples, NEW ended \in BOOLEAN,
           Tick(in, ended), UNCHANGED <<session, failed, captures>>, UNCHANGED desktop,
           commandSequence' \in Nat, commandSequence' <= session.sequence,
           toRouter' \in Seq(Commands),
           Increasing(toRouter', commandSequence', session.sequence),
           \A c \in Sent(toRouter') : c.type = "Mode" => c \in Sent(toRouter),
           ModeFits(toRouter', toSession, session, mode, slot),
           InjectFits(toRouter', toSession, session, remote)
    PROVE  SessionInv'
<1>1. UNCHANGED <<mode, slot, grantee>> /\ toSession \in Seq(Packets)
  BY Fitting DEF Tick
<1>2. PICK e \in BOOLEAN :
        /\ e => remote # 0
        /\ remote' = IF e THEN 0 ELSE remote
        /\ Follows(toSession, toSession', e, IF mode = "ui" THEN Given(in) ELSE {})
  BY <1>1, TickFollows
<1>3. /\ ModeFits(toRouter', toSession', session, mode, slot)
      /\ InjectFits(toRouter', toSession', session, remote')
  BY <1>2, FollowFits
<1>4. toSession' \in Seq(Packets)
  BY <1>2 DEF Follows
<1> QED
  BY <1>1, <1>3, <1>4, RouterSame DEF desktop

(* Reports lost by the kernel. *)
LEMMA LostKeeps ==
    ASSUME SessionInv, RouterTypes, failed = None, Lost,
           UNCHANGED <<session, failed, captures, commandSequence, toRouter>>,
           UNCHANGED desktop
    PROVE  /\ SessionInv'
           /\ Follows(toSession, toSession', remote # 0, {})
<1>1. toSession \in Seq(Packets) /\ remote \in Nat /\ commandSequence \in Nat /\ mode \in Modes
      /\ (remote # 0) \in BOOLEAN /\ 0 \in Samples
  BY Fitting DEF RouterTypes, Samples
<1> DEFINE n == toSession \o Done(remote # 0)
<1>2. Follows(toSession, n, remote # 0, {})
  BY <1>1, FollowsDone
<1>3. toSession' = n \o <<State(commandSequence, mode, 0)>>
  BY DEF Lost, NeutralState
<1> HIDE DEF n
<1>4. Follows(toSession, toSession', remote # 0, {})
  BY <1>1, <1>2, <1>3, FollowsState
<1>5. remote' = IF remote # 0 THEN 0 ELSE remote
  BY DEF Lost, End
<1>6. /\ ModeFits(toRouter, toSession', session, mode, slot)
      /\ InjectFits(toRouter, toSession', session, remote')
  <2>1. /\ ModeFits(toRouter, toSession, session, mode, slot)
        /\ InjectFits(toRouter, toSession, session, remote)
    BY Fitting
  <2> QED BY <1>1, <1>4, <1>5, <2>1, FollowFits
<1>7. toSession' \in Seq(Packets) /\ UNCHANGED <<mode, slot, grantee>>
  BY <1>4 DEF Follows, Lost
<1> QED
  BY <1>4, <1>6, <1>7, RouterSame DEF SessionInv, Numbered, desktop

(* A tool input taken or denied is answered once. *)
LEMMA InjectedKeeps ==
    ASSUME SessionInv, RouterTypes, failed = None, toRouter # <<>>,
           Head(toRouter).type = "Inject", TakeInject(Head(toRouter)),
           toRouter' = Tail(toRouter), RouterOnly
    PROVE  SessionInv'
<1> DEFINE c == Head(toRouter)
<1>1. /\ UNCHANGED <<session, failed, mode, slot, grantee, captures>>
      /\ UNCHANGED <<active, apps, slotOf, quickOpen, homing, capturing>>
      /\ commandSequence' = c.seq
      /\ \/ remote' = c.seq /\ toSession' = toSession
         \/ remote' = remote /\ toSession' = Append(toSession, Answer("InjectDenied", c.seq))
  BY DEF TakeInject, RouterOnly, Deny, policy, desktop, bounds
<1>2. commandSequence \in Nat /\ toSession \in Seq(Packets)
  BY Fitting DEF RouterTypes
<1>3. /\ toRouter' \in Seq(Commands) /\ Sent(toRouter) = Sent(toRouter') \cup {c}
      /\ c.seq \in Nat /\ c.seq # 0 /\ c.seq <= session.sequence
      /\ Increasing(toRouter', c.seq, session.sequence)
      /\ ModeFits(toRouter', toSession, session, mode, slot)
      /\ InjectFits(toRouter', toSession, session, remote)
      /\ remote = 0 /\ c.seq = session.remote
      /\ ~Has(toRouter', {"Inject"}) /\ ~Has(toSession, Answers)
  BY <1>2, TakenFits
<1> HIDE DEF c
<1>4. CASE remote' = c.seq /\ toSession' = toSession
  <2>1. InjectFits(toRouter', toSession', session, remote')
    BY <1>3, <1>4 DEF InjectFits
  <2> QED BY <1>1, <1>2, <1>3, <1>4, <2>1, RouterSame
<1>5. CASE remote' = remote /\ toSession' = Append(toSession, Answer("InjectDenied", c.seq))
  <2> DEFINE p == Answer("InjectDenied", c.seq)
  <2>1. p \in Packets /\ p.type = "InjectDenied" /\ p.seq = c.seq
    BY <1>3 DEF Answer, Packets, Answers
  <2> HIDE DEF p
  <2>2. /\ toSession \o <<p>> \in Seq(Packets) /\ toSession' = toSession \o <<p>>
        /\ Sent(toSession \o <<p>>) = Sent(toSession) \cup {p}
        /\ \A T : Has(toSession \o <<p>>, T) <=> Has(toSession, T) \/ p.type \in T
        /\ \A T : Once(toSession, T) /\ (p.type \in T => ~Has(toSession, T))
                    => Once(toSession \o <<p>>, T)
    <3>1. toSession' = Append(toSession, p)
      BY <1>5 DEF p
    <3> QED BY <1>2, <2>1, <3>1, Appended
  <2>3. ModeFits(toRouter', toSession', session, mode, slot)
    <3>1. Once(toSession', {"Ack"}) /\ (Has(toSession', {"Ack"}) <=> Has(toSession, {"Ack"}))
      BY <1>3, <2>1, <2>2 DEF ModeFits
    <3>2. \A x \in Sent(toSession') : x.type = "Ack" => x \in Sent(toSession)
      BY <2>1, <2>2
    <3> QED BY <1>3, <3>1, <3>2 DEF ModeFits
  <2>4. InjectFits(toRouter', toSession', session, remote')
    <3>1. Once(toSession', Answers)
      BY <1>3, <2>2 DEF InjectFits
    <3>2. \A x \in Sent(toSession') : x.type \in Answers => x = p \/ x \in Sent(toSession)
      BY <2>2
    <3>3. \A x \in Sent(toSession') : x.type \in Answers => x.seq = session.remote /\ x.seq # 0
      BY <1>3, <2>1, <3>2 DEF InjectFits
    <3> QED BY <1>3, <1>5, <3>1, <3>3 DEF InjectFits
  <2> QED BY <1>1, <1>2, <1>3, <2>2, <2>3, <2>4, RouterSame
<1> QED
  BY <1>1, <1>4, <1>5

(* What a change of owner says: neutral samples, then its Ack. *)
LEMMA ModeFollows ==
    ASSUME RouterTypes, toSession \in Seq(Packets), NEW c \in Commands, c.type = "Mode",
           TakeMode(c)
    PROVE  /\ c.seq \in Nat /\ c.mode \in Modes /\ c.slot \in Slots /\ c.for \in Apps \cup {None}
           /\ \E n : /\ Follows(toSession, n, remote # 0, {})
                     /\ toSession' = n \o <<Ack(c.seq, c.mode, c.slot)>>
           /\ Ack(c.seq, c.mode, c.slot) \in Packets
<1>1. /\ c.seq \in Nat /\ c.mode \in Modes /\ c.slot \in Slots /\ c.for \in Apps \cup {None}
  BY DEF Commands
<1>2. remote \in Nat /\ mode \in Modes /\ (remote # 0) \in BOOLEAN /\ 0 \in Samples
  BY DEF RouterTypes, Samples
<1>3. Ack(c.seq, c.mode, c.slot) \in Packets
  BY <1>1 DEF Ack, Packets
<1> DEFINE n == toSession \o Done(remote # 0)
           n2 == n \o <<State(c.seq, mode, 0)>>
           n3 == n2 \o <<State(c.seq, c.mode, 0)>>
<1>4. toSession' = n3 \o <<Ack(c.seq, c.mode, c.slot)>>
  BY DEF TakeMode, NeutralState
<1>5. Follows(toSession, n, remote # 0, {})
  BY <1>2, FollowsDone
<1> HIDE DEF n
<1>6. Follows(toSession, n2, remote # 0, {})
  BY <1>1, <1>2, <1>5, FollowsState
<1> HIDE DEF n2
<1>7. Follows(toSession, n3, remote # 0, {})
  BY <1>1, <1>2, <1>6, FollowsState
<1> QED
  BY <1>1, <1>3, <1>4, <1>7

(* A change of owner: its Ack takes the place of the Mode in flight. *)
LEMMA ModeKeeps ==
    ASSUME SessionInv, RouterTypes, failed = None, toRouter # <<>>,
           Head(toRouter).type = "Mode", TakeMode(Head(toRouter)),
           toRouter' = Tail(toRouter), RouterOnly
    PROVE  SessionInv'
<1> DEFINE c == Head(toRouter)
<1>1. /\ UNCHANGED <<session, failed, captures>>
      /\ UNCHANGED <<active, apps, slotOf, quickOpen, homing, capturing>>
      /\ commandSequence' = c.seq /\ mode' = c.mode /\ slot' = c.slot /\ grantee' = c.for
      /\ remote' = IF remote # 0 THEN 0 ELSE remote
  BY DEF TakeMode, RouterOnly, End, desktop, bounds
<1>2. /\ commandSequence \in Nat /\ toSession \in Seq(Packets) /\ remote \in Nat
      /\ (remote # 0) \in BOOLEAN
  BY Fitting DEF RouterTypes
<1>3. /\ toRouter' \in Seq(Commands) /\ Sent(toRouter) = Sent(toRouter') \cup {c}
      /\ c \in Commands
      /\ c.seq \in Nat /\ c.seq # 0 /\ c.seq <= session.sequence
      /\ Increasing(toRouter', c.seq, session.sequence)
      /\ ModeFits(toRouter', toSession, session, mode, slot)
      /\ InjectFits(toRouter', toSession, session, remote)
      /\ InFlight(session) /\ c.seq = session.modeSequence
      /\ c.mode = session.requested /\ c.slot = session.wanted
      /\ ~Has(toRouter', {"Mode"}) /\ ~Has(toSession, {"Ack"})
  BY <1>2, TakenFits
<1> DEFINE p == Ack(c.seq, c.mode, c.slot)
<1>4. PICK n : Follows(toSession, n, remote # 0, {}) /\ toSession' = n \o <<p>>
  BY <1>2, <1>3, ModeFollows
<1>5. p \in Packets /\ p.type = "Ack" /\ p.seq = c.seq /\ p.mode = c.mode /\ p.slot = c.slot
  BY <1>2, <1>3, ModeFollows DEF Ack
<1> HIDE DEF c, p
<1>6. /\ ModeFits(toRouter', n, session, mode, slot)
      /\ InjectFits(toRouter', n, session, remote')
      /\ n \in Seq(Packets) /\ ~Has(n, {"Ack"})
  <2>1. n \in Seq(Packets) /\ ~Has(n, {"Ack"})
    BY <1>3, <1>4 DEF Follows
  <2> QED BY <1>1, <1>2, <1>3, <1>4, <2>1, FollowFits
<1>7. /\ n \o <<p>> \in Seq(Packets) /\ Sent(n \o <<p>>) = Sent(n) \cup {p}
      /\ \A T : Has(n \o <<p>>, T) <=> Has(n, T) \/ p.type \in T
      /\ \A T : Once(n, T) /\ (p.type \in T => ~Has(n, T)) => Once(n \o <<p>>, T)
  BY <1>5, <1>6, Appended
<1>8. ModeFits(toRouter', toSession', session, c.mode, c.slot)
  <2>1. Once(toRouter', {"Mode"}) /\ Once(toSession', {"Ack"})
    BY <1>4, <1>6, <1>7 DEF ModeFits
  <2>2. \A x \in Sent(toRouter') : x.type # "Mode"
    BY <1>3 DEF Has
  <2>3. \A x \in Sent(toSession') : x.type = "Ack" => x = p
    BY <1>4, <1>6, <1>7 DEF Has
  <2> QED BY <1>3, <1>5, <2>1, <2>2, <2>3 DEF ModeFits
<1>9. InjectFits(toRouter', toSession', session, remote')
  <2>1. Once(toSession', Answers) /\ (Has(toSession', Answers) <=> Has(n, Answers))
    BY <1>4, <1>5, <1>6, <1>7 DEF InjectFits, Answers
  <2>2. \A x \in Sent(toSession') : x.type \in Answers => x \in Sent(n)
    BY <1>4, <1>5, <1>7 DEF Answers
  <2> QED BY <1>6, <2>1, <2>2 DEF InjectFits
<1>10. Numbered' /\ ModeInFlight' /\ InjectInFlight'
  BY <1>1, <1>3, <1>4, <1>7, <1>8, <1>9 DEF Numbered, ModeInFlight, InjectInFlight
<1>11. Tasks'
  BY <1>1 DEF SessionInv, Tasks, TasksInSlots
<1>12. BeliefIsTrue'
  BY <1>1, <1>3 DEF BeliefIsTrue, InFlight
<1>13. ~session.ready
  BY <1>3, Fitting DEF InFlight
<1>14. Settled' /\ Private'
  BY <1>1, <1>13 DEF SessionInv, Settled, Private
<1>15. GrantIsForOwner'
  <2> SUFFICES ASSUME captures = 0
               PROVE  Grants(slotOf, toRouter', c.mode, c.slot, c.for)
    BY <1>1 DEF GrantIsForOwner, Grants
  <2>1. Grants(slotOf, toRouter, mode, slot, grantee)
    BY DEF SessionInv, GrantIsForOwner, Grants
  <2>2. c.type = "Mode" /\ c \in Sent(toRouter)
    BY <1>3 DEF c
  <2> QED BY <1>3, <2>1, <2>2 DEF Grants
<1> QED
  BY <1>1, <1>3, <1>10, <1>11, <1>12, <1>14, <1>15 DEF SessionInv

(* Every step of the router keeps what the session and the channel hold. *)
LEMMA RouterKeeps ==
    ASSUME SessionInv, RouterTypes, PadIsRead, Router
    PROVE  SessionInv'
<1>1. /\ commandSequence \in Nat /\ input \in Samples /\ pad \in Samples
      /\ commandSequence <= session.sequence
      /\ backlog \in Seq(Samples \cup {Dropped}) /\ (remote # 0) \in BOOLEAN
  BY DEF RouterTypes, SessionInv
<1>2. CASE Idle
  <2>1. PICK ended \in BOOLEAN : Tick(input, ended)
    BY <1>2 DEF Idle
  <2>2. /\ failed = None /\ UNCHANGED <<session, failed, captures, commandSequence, toRouter>>
        /\ UNCHANGED desktop
    BY <1>2 DEF Idle, RouterOnly, bounds
  <2> QED BY <1>1, <2>1, <2>2, Fitting, TickKeeps
<1>3. CASE ReadEvent
  <2>1. /\ failed = None /\ UNCHANGED <<session, failed, captures, commandSequence, toRouter>>
        /\ UNCHANGED desktop /\ backlog # <<>>
    BY <1>3 DEF ReadEvent, RouterOnly, bounds
  <2>2. CASE Lost
    BY <2>1, <2>2, LostKeeps
  <2>3. CASE Head(backlog) # Dropped /\ \E ended \in BOOLEAN :
               Tick(IF syncing THEN pad ELSE Head(backlog), ended)
    <3>1. Head(backlog) \in Samples
      BY <1>1, <2>1, <2>3
    <3>2. (IF syncing THEN pad ELSE Head(backlog)) \in Samples
      BY <1>1, <3>1
    <3> QED BY <1>1, <2>1, <2>3, <3>2, Fitting, TickKeeps
  <2> QED BY <1>3, <2>2, <2>3 DEF ReadEvent
<1>4. CASE Command
  <2> DEFINE c == Head(toRouter)
  <2>1. /\ failed = None /\ toRouter # <<>> /\ toRouter' = Tail(toRouter) /\ RouterOnly
        /\ UNCHANGED <<session, failed, captures>> /\ UNCHANGED desktop
    BY <1>4 DEF Command, RouterOnly, bounds
  <2>2. CASE c.type = "Mode" /\ TakeMode(c)
    BY <2>1, <2>2, ModeKeeps
  <2>3. CASE c.type = "Inject" /\ TakeInject(c)
    BY <2>1, <2>3, InjectedKeeps
  <2>4. CASE c.type = "CancelInject" /\ TakeCancel(c)
    <3>1. Tick(input, remote # 0) /\ commandSequence' = c.seq
      BY <2>4 DEF TakeCancel
    <3> QED BY <1>1, <2>1, <3>1, TakenFits, TickKeeps
  <2> QED BY <1>4, <2>2, <2>3, <2>4 DEF Command
<1>5. CASE RouterExit
  <2>1. /\ UNCHANGED <<session, failed, mode, slot, grantee, captures, commandSequence>>
        /\ UNCHANGED <<active, apps, slotOf, quickOpen, homing, capturing>>
        /\ UNCHANGED <<toRouter, toSession, remote>>
    BY <1>5 DEF RouterExit, policy, desktop, bounds
  <2>2. /\ toRouter \in Seq(Commands) /\ toSession \in Seq(Packets)
        /\ Increasing(toRouter, commandSequence, session.sequence)
        /\ failed = None => /\ ModeFits(toRouter, toSession, session, mode, slot)
                            /\ InjectFits(toRouter, toSession, session, remote)
    BY DEF SessionInv, Numbered, ModeInFlight, InjectInFlight
  <2> QED BY <1>1, <2>1, <2>2, RouterSame
<1> QED
  BY <1>2, <1>3, <1>4, <1>5 DEF Router

(* The pad itself. *)
LEMMA PadKeeps ==
    ASSUME SessionInv, RouterTypes, Press \/ Release
    PROVE  SessionInv'
<1>1. /\ UNCHANGED <<session, failed, mode, slot, grantee, captures, commandSequence>>
      /\ UNCHANGED <<active, apps, slotOf, quickOpen, homing, capturing>>
      /\ UNCHANGED <<toRouter, toSession, remote>>
  BY DEF Press, Release, router, policy, desktop, bounds
<1>2. /\ toRouter \in Seq(Commands) /\ toSession \in Seq(Packets)
      /\ Increasing(toRouter, commandSequence, session.sequence)
      /\ commandSequence <= session.sequence
      /\ failed = None => /\ ModeFits(toRouter, toSession, session, mode, slot)
                          /\ InjectFits(toRouter, toSession, session, remote)
  BY DEF SessionInv, Numbered, ModeInFlight, InjectInFlight
<1> QED
  BY <1>1, <1>2, RouterSame

-----------------------------------------------------------------------------
(* What a tick hands over. *)

PadTypes == game \in Samples \cup {Tool} /\ pads \in [Slots -> Samples \cup {Tool}]

(* writeGame(0) leaves every virtual gamepad neutral. *)
LEMMA NeutralWritten ==
    ASSUME PadTypes, slot \in Slots, PadsNeutral, Write(0) \/ (LetGo(0) /\ game' = 0)
    PROVE  /\ PadTypes' /\ game' = 0
           /\ \A s \in Slots : pads'[s] = 0
           /\ PadsNeutral'
<1>1. /\ game' = 0 /\ 0 \in Samples
      /\ pads' = IF game = 0 THEN pads ELSE [pads EXCEPT ![slot] = 0]
  BY DEF Write, LetGo, Samples
<1>2. pads' \in [Slots -> Samples \cup {Tool}]
  BY <1>1 DEF PadTypes
<1>3. \A s \in Slots : pads'[s] = 0
  BY <1>1 DEF PadTypes, PadsNeutral
<1> QED
  BY <1>1, <1>2, <1>3 DEF PadTypes, PadsNeutral

(* A sample written is the one the granted slot shows. *)
LEMMA SampleWritten ==
    ASSUME PadTypes, slot \in Slots, PadsNeutral, NEW x \in Samples \cup {Tool}, Write(x),
           mode' = "game", slot' = slot, waiting' = FALSE, ownerPending' = FALSE
    PROVE  PadTypes' /\ PadsNeutral'
<1>1. game' = x /\ pads' = IF x = game THEN pads ELSE [pads EXCEPT ![slot] = x]
  BY DEF Write
<1>2. pads' \in [Slots -> Samples \cup {Tool}]
  BY <1>1 DEF PadTypes
<1>3. \A s \in Slots : pads'[s] # 0 => s = slot /\ pads'[s] = x
  BY <1>1 DEF PadTypes, PadsNeutral
<1> QED
  BY <1>1, <1>2, <1>3 DEF PadTypes, PadsNeutral

(* Who has a slot open. *)
LEMMA OwnerHasSlot ==
    ASSUME NEW s, OwnerOf(s) # None
    PROVE  OwnerOf(s) \in Apps /\ slotOf[OwnerOf(s)] = s
BY DEF OwnerOf

(* What the owner of the slot reads are presses that the tick was given. *)
LEMMA ReadsGiven ==
    ASSUME RouterTypes, NEW in, NEW seen, Reads(seen), mode = "game",
           \A d \in seen : d = 0 \/ d \in Given(in)
    PROVE  /\ got' \in [Presses -> SUBSET (Apps \cup {"ui"})]
           /\ \A p \in Presses :
                \/ got'[p] = got[p]
                \/ /\ mode = "game" /\ p \in Given(in)
                   /\ \E a \in Apps : slotOf[a] = slot /\ got'[p] = got[p] \cup {a}
<1>1. got \in [Presses -> SUBSET (Apps \cup {"ui"})] /\ 0 \notin Presses
  BY DEF RouterTypes, Presses
<1>2. ASSUME NEW p \in Presses
      PROVE  \/ got'[p] = got[p]
             \/ /\ p \in Given(in) /\ OwnerOf(slot) # None
                /\ got'[p] = got[p] \cup {OwnerOf(slot)}
  BY <1>1 DEF Reads
<1>3. \A p \in Presses :
        \/ got'[p] = got[p]
        \/ /\ mode = "game" /\ p \in Given(in)
           /\ \E a \in Apps : slotOf[a] = slot /\ got'[p] = got[p] \cup {a}
  BY <1>2, OwnerHasSlot
<1>4. \A p \in Presses : got'[p] \in SUBSET (Apps \cup {"ui"})
  BY <1>1, <1>3
<1>5. got' = [p \in Presses |-> got'[p]]
  BY DEF Reads
<1> QED
  BY <1>3, <1>4, <1>5

Hands(in) ==
    /\ got' \in [Presses -> SUBSET (Apps \cup {"ui"})]
    /\ \A p \in Presses :
         \/ got'[p] = got[p]
         \/ /\ mode = "game" /\ p \in Given(in)
            /\ \E a \in Apps : slotOf[a] = slot /\ got'[p] = got[p] \cup {a}

(* What a tick makes of the policy, of the gamepads and of the presses. *)
LEMMA TickHands ==
    ASSUME RouterTypes, PadsNeutral, NEW in \in Samples, NEW ended \in BOOLEAN, Tick(in, ended)
    PROVE  /\ input' = in /\ UNCHANGED <<mode, slot, grantee>>
           /\ deferred' \in Samples /\ ui' \in Samples
           /\ waiting' \in BOOLEAN /\ ownerPending' \in BOOLEAN
           /\ deferred' # 0 => deferred' \in Given(in)
           /\ ~waiting' => ~waiting \/ in = 0
           /\ PadTypes' /\ PadsNeutral' /\ Hands(in)
<1>1. /\ input' = in /\ UNCHANGED <<mode, slot, grantee>>
  BY DEF Tick
<1>2. /\ PadTypes /\ slot \in Slots /\ deferred \in Samples /\ ui \in Samples /\ 0 \in Samples
      /\ waiting \in BOOLEAN /\ ownerPending \in BOOLEAN /\ mode \in Modes
      /\ got \in [Presses -> SUBSET (Apps \cup {"ui"})]
  BY DEF RouterTypes, PadTypes, Samples
<1>3. deferred # 0 => deferred \in Given(in)
  BY <1>2 DEF Samples, Given
<1>4. got' = got => Hands(in)
  BY <1>2 DEF Hands
<1>5. CASE Withholds(in, ended)
  <2>1. UNCHANGED <<deferred, waiting, ownerPending, ui, got>>
    BY <1>5 DEF Withholds
  <2>2. PadTypes' /\ PadsNeutral'
    <3>1. CASE ended
      BY <1>2, <1>5, <3>1, NeutralWritten DEF Withholds
    <3>2. CASE ~ended
      <4>1. UNCHANGED <<game, pads>>
        BY <1>5, <3>2 DEF Withholds
      <4> QED BY <1>1, <1>2, <2>1, <4>1 DEF PadTypes, PadsNeutral
    <3> QED BY <3>1, <3>2
  <2> QED BY <1>1, <1>2, <1>3, <1>4, <2>1, <2>2
<1>6. ASSUME NEW out \in Samples, NEW pulse \in BOOLEAN, Delivers(in, out, pulse, ended)
      PROVE  /\ deferred' \in Samples /\ ui' \in Samples
             /\ waiting' \in BOOLEAN /\ ownerPending' \in BOOLEAN
             /\ deferred' # 0 => deferred' \in Given(in)
             /\ ~waiting' => ~waiting \/ in = 0
             /\ PadTypes' /\ PadsNeutral' /\ Hands(in)
  <2> DEFINE live == IF remote # 0 /\ ~ended THEN Tool ELSE out
             click == IF pulse THEN deferred ELSE 0
             seen == IF live = Tool THEN {} ELSE {out, click}
  <2>1. /\ ~ownerPending /\ ~(waiting /\ in # 0)
        /\ out \in {in, 0}
        /\ deferred' = IF out = in THEN 0 ELSE in
        /\ waiting' = FALSE /\ ownerPending' = ownerPending
        /\ \/ mode = "game" /\ Write(live) /\ Reads(seen) /\ ui' = ui
           \/ mode = "ui" /\ ui' = out /\ UNCHANGED <<game, pads, got>>
    BY <1>6 DEF Delivers, Acts
  <2>2. in # 0 => in \in Given(in)
    BY <2>1 DEF Samples, Given
  <2>3. \A d \in seen : d = 0 \/ d \in Given(in)
    BY <1>3, <2>1, <2>2
  <2>4. live \in Samples \cup {Tool}
    OBVIOUS
  <2> HIDE DEF live, seen
  <2>5. CASE mode = "game" /\ Write(live) /\ Reads(seen) /\ ui' = ui
    <3>1. PadTypes' /\ PadsNeutral'
      <4>1. mode' = "game" /\ slot' = slot /\ waiting' = FALSE /\ ownerPending' = FALSE
        BY <1>1, <1>2, <2>1, <2>5
      <4> QED BY <1>2, <2>4, <2>5, <4>1, SampleWritten
    <3>2. Hands(in)
      BY <2>3, <2>5, ReadsGiven DEF Hands
    <3> QED BY <1>2, <2>1, <2>2, <2>5, <3>1, <3>2
  <2>6. CASE mode = "ui" /\ ui' = out /\ UNCHANGED <<game, pads, got>>
    <3>1. PadTypes' /\ PadsNeutral'
      BY <1>2, <2>6 DEF PadTypes, PadsNeutral
    <3> QED BY <1>2, <1>4, <2>1, <2>2, <2>6, <3>1
  <2> QED BY <2>1, <2>5, <2>6
<1>7. CASE Requests(in)
  <2>1. /\ ownerPending' = TRUE /\ waiting' = TRUE /\ deferred' = 0
        /\ Write(0) /\ ui' = 0 /\ got' = got
    BY <1>7 DEF Requests, Neutralize
  <2> QED BY <1>1, <1>2, <1>4, <2>1, NeutralWritten
<1> QED
  BY <1>1, <1>5, <1>6, <1>7 DEF Tick

-----------------------------------------------------------------------------
(* The presses, and the kernel's queue of reports. *)

(* The presses stay with one party when nobody acts on one, none is handed to *)
(* another owner, and the desktop is told of its own alone.                   *)
LEMMA PartyKept ==
    ASSUME OneParty, captures' = 0 => captures = 0, got' = got,
           \A p \in Presses : Reachable(p)' =>
               \/ Reachable(p) /\ mode' = mode /\ grantee' = grantee
               \/ got[p] = {} /\ ~ToldUi(p),
           \A p \in Presses : ToldUi(p)' =>
               ToldUi(p) \/ (mode = "ui" /\ mode' = mode /\ Reachable(p))
    PROVE  OneParty'
<1> SUFFICES ASSUME captures' = 0, NEW p \in Presses
             PROVE  /\ \E party \in Apps \cup {"ui"} : got'[p] \subseteq {party}
                    /\ ToldUi(p)' => got'[p] \subseteq {"ui"}
                    /\ Reachable(p)' /\ mode' = "ui" => got'[p] \subseteq {"ui"}
                    /\ Reachable(p)' /\ mode' = "game" =>
                         got'[p] \subseteq {grantee'} /\ ~ToldUi(p)'
  BY DEF OneParty
<1>1. /\ \E party \in Apps \cup {"ui"} : got[p] \subseteq {party}
      /\ ToldUi(p) => got[p] \subseteq {"ui"}
      /\ Reachable(p) /\ mode = "ui" => got[p] \subseteq {"ui"}
      /\ Reachable(p) /\ mode = "game" => got[p] \subseteq {grantee} /\ ~ToldUi(p)
  BY DEF OneParty
<1>2. /\ Reachable(p)' => \/ Reachable(p) /\ mode' = mode /\ grantee' = grantee
                          \/ got[p] = {} /\ ~ToldUi(p)
      /\ ToldUi(p)' => ToldUi(p) \/ (mode = "ui" /\ mode' = mode /\ Reachable(p))
  OBVIOUS
<1> QED
  BY <1>1, <1>2

(* A tick hands presses to the owner that may have them. *)
LEMMA PartyReads ==
    ASSUME OneParty, SessionInv, RouterTypes, captures' = 0 => captures = 0,
           NEW in, Hands(in), UNCHANGED <<mode, grantee>>,
           \A p \in Given(in) : Reachable(p),
           \A p \in Presses : Reachable(p)' => Reachable(p),
           \A p \in Presses : ToldUi(p)' => ToldUi(p) \/ (mode = "ui" /\ p \in Given(in))
    PROVE  OneParty'
<1> SUFFICES ASSUME captures' = 0, NEW p \in Presses
             PROVE  /\ \E party \in Apps \cup {"ui"} : got'[p] \subseteq {party}
                    /\ ToldUi(p)' => got'[p] \subseteq {"ui"}
                    /\ Reachable(p)' /\ mode' = "ui" => got'[p] \subseteq {"ui"}
                    /\ Reachable(p)' /\ mode' = "game" =>
                         got'[p] \subseteq {grantee'} /\ ~ToldUi(p)'
  BY DEF OneParty
<1>1. /\ \E party \in Apps \cup {"ui"} : got[p] \subseteq {party}
      /\ ToldUi(p) => got[p] \subseteq {"ui"}
      /\ Reachable(p) /\ mode = "ui" => got[p] \subseteq {"ui"}
      /\ Reachable(p) /\ mode = "game" => got[p] \subseteq {grantee} /\ ~ToldUi(p)
  BY DEF OneParty
<1>2. /\ Reachable(p)' => Reachable(p)
      /\ ToldUi(p)' => ToldUi(p) \/ (mode = "ui" /\ p \in Given(in))
      /\ p \in Given(in) => Reachable(p)
  OBVIOUS
<1>3. CASE got'[p] = got[p]
  BY <1>1, <1>2, <1>3
<1>4. CASE /\ mode = "game" /\ p \in Given(in)
           /\ \E a \in Apps : slotOf[a] = slot /\ got'[p] = got[p] \cup {a}
  <2>1. PICK a \in Apps : slotOf[a] = slot /\ got'[p] = got[p] \cup {a}
    BY <1>4
  <2>2. a = grantee
    <3>1. slot # None /\ GrantIsForOwner
      BY OwnershipAssumption DEF RouterTypes, SessionInv
    <3> QED BY <1>4, <2>1, <3>1 DEF GrantIsForOwner
  <2>3. got[p] \subseteq {grantee} /\ ~ToldUi(p) /\ ~ToldUi(p)'
    BY <1>1, <1>2, <1>4
  <2>4. got'[p] \subseteq {grantee}
    BY <2>1, <2>2, <2>3
  <2> QED BY <1>4, <2>1, <2>2, <2>3, <2>4
<1> QED
  BY <1>3, <1>4 DEF Hands

(* The desktop acts on a press that it was told of. *)
LEMMA PartyTold ==
    ASSUME OneParty, captures' = captures, NEW x \in Presses, ToldUi(x),
           got' = [got EXCEPT ![x] = @ \cup {"ui"}], UNCHANGED <<mode, grantee>>,
           got \in [Presses -> SUBSET (Apps \cup {"ui"})],
           \A p \in Presses : Reachable(p)' => Reachable(p),
           \A p \in Presses : ToldUi(p)' => ToldUi(p)
    PROVE  OneParty'
<1> SUFFICES ASSUME captures' = 0, NEW p \in Presses
             PROVE  /\ \E party \in Apps \cup {"ui"} : got'[p] \subseteq {party}
                    /\ ToldUi(p)' => got'[p] \subseteq {"ui"}
                    /\ Reachable(p)' /\ mode' = "ui" => got'[p] \subseteq {"ui"}
                    /\ Reachable(p)' /\ mode' = "game" =>
                         got'[p] \subseteq {grantee'} /\ ~ToldUi(p)'
  BY DEF OneParty
<1>1. /\ \E party \in Apps \cup {"ui"} : got[p] \subseteq {party}
      /\ ToldUi(p) => got[p] \subseteq {"ui"}
      /\ Reachable(p) /\ mode = "ui" => got[p] \subseteq {"ui"}
      /\ Reachable(p) /\ mode = "game" => got[p] \subseteq {grantee} /\ ~ToldUi(p)
  BY DEF OneParty
<1>2. /\ Reachable(p)' => Reachable(p)
      /\ ToldUi(p)' => ToldUi(p)
  OBVIOUS
<1>3. CASE p = x
  <2>1. got'[p] = got[p] \cup {"ui"}
    BY <1>3
  <2> QED BY <1>1, <1>2, <1>3, <2>1
<1>4. CASE p # x
  <2>1. got'[p] = got[p]
    BY <1>4
  <2> QED BY <1>1, <1>2, <2>1
<1> QED
  BY <1>3, <1>4

(* The kernel's queue of reports. *)
LEMMA Queued ==
    ASSUME RouterTypes, NEW x \in Samples, Queue(x)
    PROVE  /\ backlog' \in Seq(Samples \cup {Dropped}) /\ Len(backlog') <= MaxBacklog + 1
           /\ backlog' # <<>> /\ backlog'[Len(backlog')] = x
           /\ Sent(backlog') \subseteq Sent(backlog) \cup {Dropped, x}
<1>1. backlog \in Seq(Samples \cup {Dropped}) /\ MaxBacklog \in Nat /\ MaxBacklog # 0
  BY OwnershipAssumption DEF RouterTypes
<1>2. CASE Len(backlog) < MaxBacklog
  <2>1. backlog' = Append(backlog, x)
    BY <1>2 DEF Queue
  <2>2. /\ Len(backlog') = Len(backlog) + 1 /\ backlog' \in Seq(Samples \cup {Dropped})
        /\ backlog'[Len(backlog) + 1] = x
        /\ \A i \in 1..Len(backlog) : backlog'[i] = backlog[i]
    BY <1>1, <2>1
  <2>3. Sent(backlog') \subseteq Sent(backlog) \cup {Dropped, x}
    <3> SUFFICES ASSUME NEW i \in DOMAIN backlog' PROVE backlog'[i] \in Sent(backlog) \cup {x}
      BY DEF Sent
    <3>1. i \in 1..Len(backlog) \/ i = Len(backlog) + 1
      BY <1>1, <2>2
    <3> QED BY <1>1, <2>2, <3>1 DEF Sent
  <2> QED BY <1>1, <1>2, <2>2, <2>3
<1>3. CASE ~(Len(backlog) < MaxBacklog)
  <2>1. backlog' = <<Dropped, x>>
    BY <1>3 DEF Queue
  <2>2. /\ Len(backlog') = 2 /\ backlog' \in Seq(Samples \cup {Dropped})
        /\ backlog'[1] = Dropped /\ backlog'[2] = x
    <3>1. Dropped \in Samples \cup {Dropped} /\ x \in Samples \cup {Dropped}
      OBVIOUS
    <3> HIDE DEF Queue
    <3>2. <<Dropped, x>> \in Seq(Samples \cup {Dropped})
      BY <3>1
    <3>3. Len(<<Dropped, x>>) = 2 /\ <<Dropped, x>>[1] = Dropped /\ <<Dropped, x>>[2] = x
      OBVIOUS
    <3> QED BY <2>1, <3>2, <3>3
  <2>3. Sent(backlog') \subseteq {Dropped, x}
    BY <2>2 DEF Sent
  <2>4. 2 <= MaxBacklog + 1
    BY <1>1
  <2>5. backlog' # <<>>
    BY <2>2
  <2>6. backlog'[Len(backlog')] = x
    BY <2>2
  <2> QED BY <2>2, <2>3, <2>4, <2>5, <2>6
<1> QED
  BY <1>2, <1>3

(* What the router takes from the queue of reports. *)
LEMMA Consumed ==
    ASSUME RouterTypes, backlog # <<>>
    PROVE  /\ Tail(backlog) \in Seq(Samples \cup {Dropped})
           /\ Len(Tail(backlog)) <= MaxBacklog + 1
           /\ Head(backlog) \in Samples \cup {Dropped} /\ Head(backlog) \in Sent(backlog)
           /\ backlog[Len(backlog)] \in Sent(backlog)
           /\ Sent(Tail(backlog)) \subseteq Sent(backlog)
           /\ Tail(backlog) = <<>> => Head(backlog) = backlog[Len(backlog)]
           /\ Tail(backlog) # <<>> =>
                Tail(backlog)[Len(Tail(backlog))] = backlog[Len(backlog)]
<1>1. backlog \in Seq(Samples \cup {Dropped}) /\ Len(backlog) <= MaxBacklog + 1
      /\ MaxBacklog \in Nat
  BY OwnershipAssumption DEF RouterTypes
<1>2. /\ Tail(backlog) \in Seq(Samples \cup {Dropped}) /\ Head(backlog) \in Samples \cup {Dropped}
      /\ Head(backlog) \in Sent(backlog) /\ Sent(Tail(backlog)) \subseteq Sent(backlog)
  BY <1>1, Rest
<1>3. Len(backlog) \in Nat /\ Len(backlog) # 0 /\ Len(Tail(backlog)) = Len(backlog) - 1
  BY <1>1
<1>4. backlog[Len(backlog)] \in Sent(backlog)
  BY <1>1, <1>3 DEF Sent
<1>5. Tail(backlog) = <<>> => Head(backlog) = backlog[Len(backlog)]
  BY <1>1, <1>3
<1>6. Tail(backlog) # <<>> => Tail(backlog)[Len(Tail(backlog))] = backlog[Len(backlog)]
  BY <1>1, <1>3
<1> QED
  BY <1>1, <1>2, <1>3, <1>4, <1>5, <1>6

-----------------------------------------------------------------------------
(* The router, for the pad. *)

PadInv == RouterTypes /\ PadIsRead /\ OneParty /\ PadsNeutral

(* Presses are numbered, and a lost report is no sample. *)
LEMMA SamplesAreNumbers ==
    /\ MaxPresses \in Nat /\ Samples \subseteq Nat /\ 0 \in Samples /\ Dropped \notin Samples
    /\ \A p \in Presses : p \in Nat /\ p # 0
<1>1. MaxPresses \in Nat /\ Dropped \notin Nat
  <2>1. Dropped \in {Tool, Dropped} /\ {Tool, Dropped} \cap Nat = {}
    BY OwnershipAssumption
  <2> QED BY <2>1, OwnershipAssumption
<1>2. Presses \subseteq Nat /\ Samples \subseteq Nat /\ 0 \in Samples
  BY <1>1 DEF Samples, Presses
<1>3. \A p \in Presses : p # 0
  BY <1>1 DEF Presses
<1> QED
  BY <1>1, <1>2, <1>3

(* No message of the packets added tells of a press that is not in S. *)
LEMMA ToldFollows ==
    ASSUME NEW n, NEW e, NEW S, Follows(toSession, n, e, S), mode \in Modes
    PROVE  /\ \A p \in Sent(n) : p.type = "State" =>
                p \in Sent(toSession) \/ p.sample = 0 \/ (p.mode = mode /\ p.sample \in S)
           /\ \A x \in Presses : (\E p \in Sent(n) : p.type = "State" /\ p.mode = "ui"
                                                      /\ p.sample = x)
                => ToldUi(x) \/ (mode = "ui" /\ x \in S)
<1>1. \A p \in Sent(n) : p.type = "State" =>
        p \in Sent(toSession) \/ p.sample = 0 \/ (p.mode = mode /\ p.sample \in S)
  BY DEF Follows, Says, Answers
<1>2. 0 \notin Presses
  BY DEF Presses
<1> QED
  BY <1>1, <1>2 DEF ToldUi

(* A tick hands every press to the one party that may have it. *)
LEMMA TickPads ==
    ASSUME SessionInv, PadInv, NEW in \in Samples, NEW ended \in BOOLEAN, Tick(in, ended),
           commandSequence' \in Nat, commandSequence <= commandSequence',
           UNCHANGED <<pad, presses, captures>>, syncing' \in BOOLEAN,
           backlog' \in Seq(Samples \cup {Dropped}), Len(backlog') <= MaxBacklog + 1,
           Sent(backlog') \subseteq Sent(backlog),
           backlog' = <<>> => in = pad,
           backlog' # <<>> => backlog'[Len(backlog')] = pad,
           in \in Sent(backlog) \cup {pad, input}, in = pad \/ pad \in Sent(backlog)
    PROVE  PadInv'
<1>1. /\ RouterTypes /\ PadIsRead /\ OneParty /\ PadsNeutral
      /\ toSession \in Seq(Packets) /\ mode \in Modes /\ 0 \in Samples
      /\ presses \in Nat /\ remote \in Nat /\ commandSequence \in Nat
      /\ \A p \in Presses : p \in Nat /\ p # 0
  BY OwnershipAssumption DEF PadInv, RouterTypes, SessionInv, Numbered, Samples, Presses
<1>2. /\ input' = in /\ UNCHANGED <<mode, slot, grantee>>
      /\ deferred' \in Samples /\ ui' \in Samples
      /\ waiting' \in BOOLEAN /\ ownerPending' \in BOOLEAN
      /\ deferred' # 0 => deferred' \in Given(in)
      /\ ~waiting' => ~waiting \/ in = 0
      /\ PadTypes' /\ PadsNeutral' /\ Hands(in)
  BY <1>1, TickHands
<1> DEFINE S == IF mode = "ui" THEN Given(in) ELSE {}
<1>3. PICK e \in BOOLEAN :
        /\ e => remote # 0
        /\ remote' = IF e THEN 0 ELSE remote
        /\ Follows(toSession, toSession', e, S)
  BY <1>1, TickFollows
<1>4. RouterTypes'
  <2>1. remote' \in 0..commandSequence'
    <3>1. remote \in 0..commandSequence
      BY <1>1 DEF RouterTypes
    <3> QED BY <1>1, <1>3, <3>1
  <2>2. /\ pad' \in Samples /\ presses' \in 0..MaxPresses /\ input' \in Samples
        /\ mode' \in Modes /\ slot' \in Slots /\ grantee' \in Apps \cup {None}
    BY <1>1, <1>2 DEF RouterTypes
  <2>3. /\ game' \in Samples \cup {Tool} /\ pads' \in [Slots -> Samples \cup {Tool}]
        /\ got' \in [Presses -> SUBSET (Apps \cup {"ui"})]
    BY <1>2 DEF PadTypes, Hands
  <2> QED BY <1>2, <2>1, <2>2, <2>3 DEF RouterTypes
<1>5. \A d \in Given(in) : Reachable(d)
  BY DEF Given, Reachable
<1>6. \A p \in Presses : Reachable(p)' => Reachable(p)
  <2> SUFFICES ASSUME NEW p \in Presses,
                      p \in Sent(backlog') \/ p = deferred' \/ (~waiting' /\ p \in {pad', input'})
               PROVE  Reachable(p)
    BY DEF Reachable
  <2>1. CASE p \in Sent(backlog')
    BY <2>1 DEF Reachable
  <2>2. CASE p = deferred'
    BY <1>1, <1>2, <1>5, <2>2
  <2>3. CASE ~waiting' /\ p \in {pad', input'}
    <3>1. p = pad \/ p = in
      BY <1>2, <2>3
    <3>2. CASE ~waiting
      BY <3>1, <3>2 DEF Reachable
    <3>3. CASE waiting
      <4>1. in = 0 /\ p # 0 /\ p = pad
        BY <1>1, <1>2, <2>3, <3>1, <3>3
      <4>2. pad \in Sent(backlog)
        BY <4>1
      <4> QED BY <4>1, <4>2 DEF Reachable
    <3> QED BY <3>2, <3>3
  <2> QED BY <2>1, <2>2, <2>3
<1>7. /\ \A p \in Sent(toSession') : p.type = "State" =>
           p \in Sent(toSession) \/ p.sample = 0 \/ p.sample \in S
      /\ \A p \in Presses : ToldUi(p)' => ToldUi(p) \/ (mode = "ui" /\ p \in Given(in))
  BY <1>1, <1>3, ToldFollows DEF ToldUi
<1>8. OneParty'
  BY <1>1, <1>2, <1>5, <1>6, <1>7, PartyReads
<1>9. PadIsRead'
  <2>1. /\ pad <= presses /\ input <= presses /\ deferred <= presses
        /\ \A s \in Sent(backlog) : s = Dropped \/ s <= presses
        /\ \A p \in Sent(toSession) : p.type = "State" => p.sample <= presses
        /\ \A p \in Presses : p > presses => got[p] = {}
    BY <1>1 DEF PadIsRead
  <2>2. in <= presses
    <3>1. in # Dropped
      BY SamplesAreNumbers
    <3> QED BY <2>1, <3>1
  <2>3. \A d \in Given(in) : d <= presses
    BY <2>1, <2>2 DEF Given
  <2>4. deferred' <= presses
    BY <1>1, <1>2, <2>3
  <2>5. \A p \in Sent(toSession') : p.type = "State" => p.sample <= presses
    BY <1>1, <1>7, <2>1, <2>3
  <2>6. \A p \in Presses : p > presses => got'[p] = {}
    <3> SUFFICES ASSUME NEW p \in Presses, p > presses PROVE got'[p] = {}
      OBVIOUS
    <3>1. p \notin Given(in)
      BY <1>1, <2>3
    <3> QED BY <1>2, <2>1, <3>1 DEF Hands
  <2> QED BY <1>2, <2>1, <2>2, <2>4, <2>5, <2>6 DEF PadIsRead
<1> QED
  BY <1>2, <1>4, <1>8, <1>9 DEF PadInv

(* Lost reports hand nothing over. *)
LEMMA LostPads ==
    ASSUME SessionInv, PadInv, ReadEvent, Lost
    PROVE  PadInv'
<1>1. /\ failed = None /\ backlog # <<>> /\ backlog' = Tail(backlog) /\ Head(backlog) = Dropped
      /\ UNCHANGED <<pad, presses, session, failed, captures, commandSequence, toRouter>>
      /\ UNCHANGED desktop
  BY DEF ReadEvent, Lost, RouterOnly, bounds
<1>2. /\ syncing' = TRUE /\ waiting' = TRUE /\ deferred' = 0 /\ Write(0) /\ ui' = 0 /\ got' = got
      /\ remote' = (IF remote # 0 THEN 0 ELSE remote)
      /\ UNCHANGED <<input, mode, slot, ownerPending, grantee>>
  BY DEF Lost, Neutralize, End
<1>3. /\ RouterTypes /\ PadIsRead /\ OneParty /\ PadsNeutral
      /\ PadTypes /\ slot \in Slots /\ mode \in Modes /\ 0 \in Samples
      /\ presses \in Nat /\ Dropped \notin Samples
      /\ \A p \in Presses : p \in Nat /\ p # 0
  <2>1. RouterTypes /\ PadIsRead /\ OneParty /\ PadsNeutral
    BY DEF PadInv
  <2>2. PadTypes /\ slot \in Slots /\ mode \in Modes /\ presses \in 0..MaxPresses
    BY <2>1 DEF RouterTypes, PadTypes
  <2>3. presses \in Nat
    BY <2>2, SamplesAreNumbers
  <2> QED BY <2>1, <2>2, <2>3, SamplesAreNumbers
<1>4. PadTypes' /\ PadsNeutral'
  BY <1>2, <1>3, NeutralWritten
<1>5. /\ backlog' \in Seq(Samples \cup {Dropped}) /\ Len(backlog') <= MaxBacklog + 1
      /\ Sent(backlog') \subseteq Sent(backlog)
      /\ backlog' # <<>> /\ backlog'[Len(backlog')] = pad
  <2>1. backlog[Len(backlog)] = pad /\ pad \in Samples
    BY <1>1, <1>3 DEF PadIsRead, RouterTypes
  <2> QED BY <1>1, <1>3, <2>1, Consumed
<1>6. Follows(toSession, toSession', remote # 0, {})
  BY <1>1, <1>3, LostKeeps
<1>7. RouterTypes'
  <2>1. remote' \in 0..commandSequence'
    BY <1>1, <1>2, <1>3 DEF RouterTypes
  <2>2. game' \in Samples \cup {Tool} /\ pads' \in [Slots -> Samples \cup {Tool}]
    BY <1>4 DEF PadTypes
  <2> QED BY <1>1, <1>2, <1>3, <1>5, <2>1, <2>2 DEF RouterTypes
<1>8. /\ \A p \in Sent(toSession') : p.type = "State" => p \in Sent(toSession) \/ p.sample = 0
      /\ \A p \in Presses : ToldUi(p)' => ToldUi(p)
  BY <1>3, <1>6, ToldFollows DEF ToldUi
<1>9. \A p \in Presses : Reachable(p)' => Reachable(p)
  BY <1>2, <1>3, <1>5 DEF Reachable
<1>10. OneParty'
  BY <1>1, <1>2, <1>3, <1>8, <1>9, PartyKept
<1>11. PadIsRead'
  BY <1>1, <1>2, <1>3, <1>5, <1>8 DEF PadIsRead
<1> QED
  BY <1>4, <1>7, <1>10, <1>11 DEF PadInv

(* After a change of owner no press is left that the new owner could be given. *)
LEMMA ModePads ==
    ASSUME SessionInv, PadInv, failed = None, toRouter # <<>>,
           Head(toRouter).type = "Mode", TakeMode(Head(toRouter)),
           toRouter' = Tail(toRouter), RouterOnly
    PROVE  PadInv'
<1> DEFINE c == Head(toRouter)
<1>1. /\ UNCHANGED <<pad, presses, captures>>
      /\ commandSequence' = c.seq /\ mode' = c.mode /\ slot' = c.slot /\ grantee' = c.for
      /\ LetGo(0) /\ game' = 0 /\ ui' = 0 /\ got' = got
      /\ backlog' = <<>> /\ syncing' = FALSE /\ input' = pad /\ deferred' = 0
      /\ waiting' = (pad # 0) /\ ownerPending' = FALSE
      /\ remote' = IF remote # 0 THEN 0 ELSE remote
  BY DEF TakeMode, LetGo, Gate, RouterOnly, End, bounds
<1>2. /\ RouterTypes /\ PadIsRead /\ OneParty /\ PadsNeutral /\ PadTypes
      /\ toSession \in Seq(Packets) /\ slot \in Slots /\ mode \in Modes /\ pad \in Samples
      /\ commandSequence \in Nat /\ remote \in Nat /\ presses \in Nat
  BY SamplesAreNumbers, Fitting DEF PadInv, RouterTypes, PadTypes
<1>3. /\ c \in Commands /\ c.seq \in Nat
  BY <1>2, TakenFits
<1>4. /\ c.mode \in Modes /\ c.slot \in Slots /\ c.for \in Apps \cup {None}
      /\ Ack(c.seq, c.mode, c.slot) \in Packets
  BY <1>2, <1>3, ModeFollows
<1>5. PICK n : /\ Follows(toSession, n, remote # 0, {})
               /\ toSession' = n \o <<Ack(c.seq, c.mode, c.slot)>>
  BY <1>2, <1>3, ModeFollows
<1> DEFINE p == Ack(c.seq, c.mode, c.slot)
<1>6. p \in Packets /\ p.type = "Ack" /\ toSession' = n \o <<p>>
  BY <1>4, <1>5 DEF Ack
<1> HIDE DEF c, p
<1>7. n \in Seq(Packets) /\ Sent(toSession') = Sent(n) \cup {p}
  BY <1>5, <1>6, Appended DEF Follows
<1>8. /\ \A x \in Sent(toSession') : x.type = "State" => x \in Sent(toSession) \/ x.sample = 0
      /\ \A x \in Presses : ToldUi(x)' => ToldUi(x)
  <2>1. \A x \in Sent(toSession') : x.type = "State" => x \in Sent(n)
    BY <1>6, <1>7
  <2>2. /\ \A x \in Sent(n) : x.type = "State" =>
              x \in Sent(toSession) \/ x.sample = 0 \/ (x.mode = mode /\ x.sample \in {})
        /\ \A x \in Presses : (\E m \in Sent(n) : m.type = "State" /\ m.mode = "ui"
                                                    /\ m.sample = x)
             => ToldUi(x) \/ (mode = "ui" /\ x \in {})
    BY <1>2, <1>5, ToldFollows
  <2>3. \A x \in Presses : ToldUi(x)' => ToldUi(x)
    BY <2>1, <2>2 DEF ToldUi
  <2> QED BY <2>1, <2>2, <2>3
<1>9. PadTypes' /\ \A s \in Slots : pads'[s] = 0
  BY <1>1, <1>2, NeutralWritten
<1>10. PadsNeutral'
  BY <1>9 DEF PadsNeutral
<1>11. RouterTypes'
  <2>1. remote' \in 0..commandSequence'
    BY <1>1, <1>2, <1>3
  <2>2. /\ backlog' \in Seq(Samples \cup {Dropped}) /\ Len(backlog') <= MaxBacklog + 1
    BY <1>1, OwnershipAssumption
  <2>3. game' \in Samples \cup {Tool} /\ pads' \in [Slots -> Samples \cup {Tool}]
    BY <1>9 DEF PadTypes
  <2>4. /\ pad' \in Samples /\ presses' \in 0..MaxPresses
        /\ got' \in [Presses -> SUBSET (Apps \cup {"ui"})]
    BY <1>1, <1>2 DEF RouterTypes
  <2>5. waiting' \in BOOLEAN /\ ownerPending' \in BOOLEAN /\ syncing' \in BOOLEAN
    BY <1>1
  <2> QED BY <1>1, <1>2, <1>3, <1>4, <2>1, <2>2, <2>3, <2>4, <2>5, SamplesAreNumbers
          DEF RouterTypes
<1>12. OneParty'
  <2>1. \A x \in Presses : ~Reachable(x)'
    BY <1>1, SamplesAreNumbers, Nothing DEF Reachable
  <2> QED BY <1>1, <1>2, <1>8, <2>1, PartyKept
<1>13. PadIsRead'
  BY <1>1, <1>2, <1>8, SamplesAreNumbers, Nothing DEF PadIsRead
<1> QED
  BY <1>10, <1>11, <1>12, <1>13 DEF PadInv

(* A tool input shows on the granted gamepad alone. *)
LEMMA InjectedPads ==
    ASSUME SessionInv, PadInv, failed = None, toRouter # <<>>,
           Head(toRouter).type = "Inject", TakeInject(Head(toRouter)),
           toRouter' = Tail(toRouter), RouterOnly
    PROVE  PadInv'
<1> DEFINE c == Head(toRouter)
<1>1. /\ UNCHANGED <<pad, presses, captures, backlog, syncing, ui, got>>
      /\ UNCHANGED <<deferred, mode, slot, waiting, ownerPending, grantee>>
      /\ commandSequence' = c.seq /\ input' = pad
      /\ \/ /\ Injectable(c) /\ remote' = c.seq /\ Write(Tool) /\ toSession' = toSession
         \/ /\ UNCHANGED <<remote, game, pads>>
            /\ toSession' = Append(toSession, Answer("InjectDenied", c.seq))
  BY DEF TakeInject, Deny, RouterOnly, policy, bounds
<1>2. /\ RouterTypes /\ PadIsRead /\ OneParty /\ PadsNeutral /\ PadTypes
      /\ toSession \in Seq(Packets) /\ slot \in Slots /\ mode \in Modes /\ pad \in Samples
      /\ commandSequence \in Nat /\ remote \in Nat /\ presses \in Nat
  BY SamplesAreNumbers, Fitting DEF PadInv, RouterTypes, PadTypes
<1>3. c.seq \in Nat /\ commandSequence <= c.seq
  BY <1>2, TakenFits
<1>4. PadTypes' /\ PadsNeutral'
  <2>1. CASE Injectable(c) /\ Write(Tool)
    <3>1. mode' = "game" /\ slot' = slot /\ waiting' = FALSE /\ ownerPending' = FALSE
      <4>1. waiting \in BOOLEAN /\ ownerPending \in BOOLEAN
        BY <1>2 DEF RouterTypes
      <4> QED BY <1>1, <2>1, <4>1 DEF Injectable
    <3> QED BY <1>2, <2>1, <3>1, SampleWritten
  <2>2. CASE UNCHANGED <<remote, game, pads>>
    BY <1>1, <1>2, <2>2 DEF PadTypes, PadsNeutral
  <2> QED BY <1>1, <2>1, <2>2
<1>5. \A x \in Sent(toSession') : x.type = "State" => x \in Sent(toSession)
  <2>1. CASE toSession' = toSession
    BY <2>1
  <2>2. CASE toSession' = Append(toSession, Answer("InjectDenied", c.seq))
    <3> DEFINE p == Answer("InjectDenied", c.seq)
    <3>1. p \in Packets /\ p.type = "InjectDenied"
      BY <1>3 DEF Answer, Packets, Answers
    <3>2. toSession' = Append(toSession, p)
      BY <2>2
    <3> HIDE DEF p
    <3>3. Sent(toSession') = Sent(toSession) \cup {p}
      BY <1>2, <3>1, <3>2, Appended
    <3> QED BY <3>1, <3>3
  <2> QED BY <1>1, <2>1, <2>2
<1>6. RouterTypes'
  <2>1. remote' \in 0..commandSequence'
    BY <1>1, <1>2, <1>3 DEF RouterTypes
  <2>2. game' \in Samples \cup {Tool} /\ pads' \in [Slots -> Samples \cup {Tool}]
    BY <1>4 DEF PadTypes
  <2> QED BY <1>1, <1>2, <1>3, <2>1, <2>2 DEF RouterTypes
<1>7. OneParty'
  <2>1. \A x \in Presses : Reachable(x)' => Reachable(x)
    BY <1>1 DEF Reachable
  <2>2. \A x \in Presses : ToldUi(x)' => ToldUi(x)
    BY <1>5 DEF ToldUi
  <2> QED BY <1>1, <1>2, <2>1, <2>2, PartyKept
<1>8. PadIsRead'
  BY <1>1, <1>2, <1>5 DEF PadIsRead
<1> QED
  BY <1>4, <1>6, <1>7, <1>8 DEF PadInv

(* A step that leaves the router and the presses alone. *)
LEMMA PadSame ==
    ASSUME PadInv, UNCHANGED <<pad, presses, backlog, input, deferred, mode, slot, waiting,
                              ownerPending, grantee, syncing, commandSequence, remote>>,
           ui' = ui,
           \/ UNCHANGED <<game, pads>>
           \/ game' = 0 /\ pads' = [s \in Slots |-> 0],
           captures' = 0 => captures = 0, got' = got,
           \A p \in Sent(toSession') : p.type = "State" => p \in Sent(toSession)
    PROVE  PadInv'
<1>1. RouterTypes /\ PadIsRead /\ OneParty /\ PadsNeutral
  BY DEF PadInv
<1>2. RouterTypes' /\ PadsNeutral'
  <2>1. CASE UNCHANGED <<game, pads>>
    BY <1>1, <2>1 DEF RouterTypes, PadsNeutral
  <2>2. CASE game' = 0 /\ pads' = [s \in Slots |-> 0]
    <3>1. game' \in Samples \cup {Tool} /\ pads' \in [Slots -> Samples \cup {Tool}]
      BY <2>2, SamplesAreNumbers
    <3> QED BY <1>1, <2>2, <3>1 DEF RouterTypes, PadsNeutral
  <2> QED BY <2>1, <2>2
<1>3. OneParty'
  <2>1. \A x \in Presses : Reachable(x)' => Reachable(x)
    BY DEF Reachable
  <2>2. \A x \in Presses : ToldUi(x)' => ToldUi(x)
    BY DEF ToldUi
  <2> QED BY <1>1, <2>1, <2>2, PartyKept
<1>4. PadIsRead'
  BY <1>1 DEF PadIsRead
<1> QED
  BY <1>1, <1>2, <1>3, <1>4 DEF PadInv

(* Every step of the router. *)
LEMMA RouterPads ==
    ASSUME SessionInv, PadInv, Router
    PROVE  PadInv'
<1>1. /\ RouterTypes /\ PadIsRead /\ OneParty /\ PadsNeutral
      /\ commandSequence \in Nat /\ input \in Samples /\ pad \in Samples
      /\ backlog \in Seq(Samples \cup {Dropped}) /\ Len(backlog) <= MaxBacklog + 1
      /\ syncing \in BOOLEAN /\ (remote # 0) \in BOOLEAN
  BY DEF PadInv, RouterTypes
<1>2. /\ backlog = <<>> => input = pad
      /\ backlog # <<>> => backlog[Len(backlog)] = pad /\ pad \in Sent(backlog)
  BY <1>1, Consumed DEF PadIsRead
<1>3. input \in Sent(backlog) \cup {pad, input} /\ (input = pad \/ pad \in Sent(backlog))
  BY <1>2
<1>4. CASE Idle
  <2>1. PICK ended \in BOOLEAN : Tick(input, ended)
    BY <1>4 DEF Idle
  <2>2. UNCHANGED <<pad, presses, captures, commandSequence, syncing, backlog>>
    BY <1>4 DEF Idle, RouterOnly, bounds
  <2> QED BY <1>1, <1>2, <1>3, <2>1, <2>2, TickPads
<1>5. CASE ReadEvent
  <2>1. CASE Lost
    BY <1>5, <2>1, LostPads
  <2>2. CASE /\ Head(backlog) # Dropped /\ syncing' = FALSE
             /\ \E ended \in BOOLEAN : Tick(IF syncing THEN pad ELSE Head(backlog), ended)
    <3> DEFINE in == IF syncing THEN pad ELSE Head(backlog)
    <3>1. /\ UNCHANGED <<pad, presses, captures, commandSequence>>
          /\ backlog # <<>> /\ backlog' = Tail(backlog)
      BY <1>5 DEF ReadEvent, RouterOnly, bounds
    <3>2. PICK ended \in BOOLEAN : Tick(in, ended)
      BY <2>2
    <3>3. /\ backlog' \in Seq(Samples \cup {Dropped}) /\ Len(backlog') <= MaxBacklog + 1
          /\ Sent(backlog') \subseteq Sent(backlog)
          /\ Head(backlog) \in Samples /\ Head(backlog) \in Sent(backlog)
          /\ backlog' = <<>> => Head(backlog) = pad
          /\ backlog' # <<>> => backlog'[Len(backlog')] = pad
      BY <1>1, <1>2, <2>2, <3>1, Consumed
    <3>4. /\ in \in Samples /\ in \in Sent(backlog) \cup {pad, input} /\ pad \in Sent(backlog)
          /\ backlog' = <<>> => in = pad
      BY <1>1, <1>2, <3>1, <3>3
    <3> HIDE DEF in
    <3>5. syncing' \in BOOLEAN
      BY <2>2
    <3> QED BY <1>1, <3>1, <3>2, <3>3, <3>4, <3>5, TickPads
  <2> QED BY <1>5, <2>1, <2>2 DEF ReadEvent
<1>6. CASE Command
  <2> DEFINE c == Head(toRouter)
  <2>1. failed = None /\ toRouter # <<>> /\ toRouter' = Tail(toRouter) /\ RouterOnly
    BY <1>6 DEF Command
  <2>2. CASE c.type = "Mode" /\ TakeMode(c)
    BY <2>1, <2>2, ModePads
  <2>3. CASE c.type = "Inject" /\ TakeInject(c)
    BY <2>1, <2>3, InjectedPads
  <2>4. CASE c.type = "CancelInject" /\ TakeCancel(c)
    <3>1. /\ Tick(input, remote # 0) /\ commandSequence' = c.seq
          /\ UNCHANGED <<backlog, syncing, pad, presses, captures>>
      BY <2>1, <2>4 DEF TakeCancel, RouterOnly, bounds
    <3>2. c.seq \in Nat /\ commandSequence <= c.seq
      BY <1>1, <2>1, TakenFits
    <3> QED BY <1>1, <1>2, <1>3, <3>1, <3>2, TickPads
  <2> QED BY <1>6, <2>2, <2>3, <2>4 DEF Command
<1>7. CASE RouterExit
  <2>1. /\ UNCHANGED <<pad, presses, backlog, input, deferred, mode, slot, waiting,
                       ownerPending, grantee, syncing, commandSequence, remote>>
        /\ UNCHANGED <<ui, toSession, captures, got>>
        /\ game' = 0 /\ pads' = [s \in Slots |-> 0]
    BY <1>7 DEF RouterExit, kernel, policy, bounds
  <2> QED BY <2>1, PadSame
<1> QED
  BY <1>4, <1>5, <1>6, <1>7 DEF Router

(* A press of the pad is known to nobody before it is made. *)
LEMMA KernelPads ==
    ASSUME PadInv, toSession \in Seq(Packets), Press \/ Release
    PROVE  PadInv'
<1>1. /\ UNCHANGED <<input, deferred, mode, slot, waiting, ownerPending, grantee>>
      /\ UNCHANGED <<syncing, commandSequence, remote, game, ui, pads, toSession>>
      /\ UNCHANGED <<captures, got>>
      /\ \/ /\ presses < MaxPresses /\ presses' = presses + 1 /\ pad' = presses' /\ Queue(pad')
         \/ presses' = presses /\ pad' = 0 /\ Queue(0)
  BY DEF Press, Release, router, policy, bounds
<1>2. RouterTypes /\ PadIsRead /\ OneParty /\ PadsNeutral
  BY DEF PadInv
<1>3. presses \in 0..MaxPresses /\ MaxPresses \in Nat
  BY <1>2, SamplesAreNumbers DEF RouterTypes
<1>4. /\ pad' \in Samples /\ presses' \in 0..MaxPresses /\ presses <= presses'
      /\ pad' <= presses' /\ (pad' = 0 \/ pad' = presses + 1) /\ Queue(pad')
  BY <1>1, <1>3 DEF Samples, Presses
<1>5. /\ backlog' \in Seq(Samples \cup {Dropped}) /\ Len(backlog') <= MaxBacklog + 1
      /\ backlog' # <<>> /\ backlog'[Len(backlog')] = pad'
      /\ Sent(backlog') \subseteq Sent(backlog) \cup {Dropped, pad'}
  BY <1>2, <1>4, Queued
<1>6. RouterTypes' /\ PadsNeutral'
  BY <1>1, <1>2, <1>4, <1>5 DEF RouterTypes, PadsNeutral
<1>7. /\ input <= presses /\ deferred <= presses
      /\ \A s \in Sent(backlog) : s = Dropped \/ s <= presses
      /\ \A p \in Sent(toSession) : p.type = "State" => p.sample <= presses
      /\ \A p \in Presses : p > presses => got[p] = {}
  BY <1>2 DEF PadIsRead
<1>8. PadIsRead'
  <2>1. input <= presses' /\ deferred <= presses'
    <3>1. input \in Nat /\ deferred \in Nat /\ presses \in Nat /\ presses' \in Nat
      BY <1>2, <1>3, <1>4, SamplesAreNumbers DEF RouterTypes
    <3> QED BY <1>4, <1>7, <3>1
  <2>2. \A s \in Sent(backlog') : s = Dropped \/ s <= presses'
    <3> SUFFICES ASSUME NEW s \in Sent(backlog'), s # Dropped, s # pad' PROVE s <= presses'
      BY <1>4
    <3>1. s \in Sent(backlog) /\ s <= presses
      BY <1>5, <1>7
    <3>2. s \in Samples
      BY <1>2, <3>1 DEF Sent, RouterTypes
    <3> QED BY <1>3, <1>4, <3>1, <3>2, SamplesAreNumbers
  <2>3. \A p \in Sent(toSession) : p.type = "State" => p.sample <= presses'
    <3> SUFFICES ASSUME NEW p \in Sent(toSession), p.type = "State" PROVE p.sample <= presses'
      OBVIOUS
    <3>1. p \in Packets
      BY DEF Sent
    <3>2. p.sample \in Nat
      BY <3>1, SamplesAreNumbers DEF Packets, Answers
    <3>3. p.sample <= presses
      BY <1>7
    <3> QED BY <1>3, <1>4, <3>2, <3>3
  <2>4. \A p \in Presses : p > presses' => got[p] = {}
    <3> SUFFICES ASSUME NEW p \in Presses, p > presses' PROVE p > presses
      BY <1>7
    <3> QED BY <1>3, <1>4, SamplesAreNumbers
  <2> QED BY <1>1, <1>4, <1>5, <2>1, <2>2, <2>3, <2>4 DEF PadIsRead
<1>9. OneParty'
  <2>1. ASSUME NEW p \in Presses, Reachable(p)'
        PROVE  Reachable(p) \/ (got[p] = {} /\ ~ToldUi(p))
    <3>1. CASE p = presses + 1
      <4>1. p > presses
        BY <1>3, <3>1
      <4>2. ~ToldUi(p)
        BY <1>3, <1>7, <3>1 DEF ToldUi
      <4> QED BY <1>7, <4>1, <4>2
    <3>2. CASE p # presses + 1
      <4>1. p # pad' /\ p # Dropped
        BY <1>4, <3>2, SamplesAreNumbers DEF Samples
      <4> QED BY <1>1, <1>5, <2>1, <4>1 DEF Reachable
    <3> QED BY <3>1, <3>2
  <2>2. \A p \in Presses : ToldUi(p)' => ToldUi(p)
    BY <1>1 DEF ToldUi
  <2> QED BY <1>1, <1>2, <2>1, <2>2, PartyKept
<1> QED
  BY <1>2, <1>6, <1>8, <1>9 DEF PadInv

-----------------------------------------------------------------------------
(* The session and the desktop, for the pad; the invariant. *)

(* Every step of the session: the desktop acts on presses it was told of. *)
LEMMA SessionPads ==
    ASSUME SessionInv, PadInv, Session
    PROVE  PadInv'
<1>1. /\ RouterTypes /\ OneParty /\ PadIsRead /\ PadsNeutral /\ toSession \in Seq(Packets)
      /\ commandSequence \in Nat
  BY DEF PadInv, RouterTypes, SessionInv, Numbered
<1>2. CASE ReadInput
  <2> DEFINE p == Head(toSession)
  <2>1. /\ toSession # <<>> /\ toSession' = Tail(toSession)
        /\ UNCHANGED <<pad, presses, backlog, input, deferred, mode, slot, waiting,
                       ownerPending, grantee, syncing, commandSequence, remote>>
        /\ UNCHANGED <<game, ui, pads, captures>>
    BY <1>2 DEF ReadInput, SessionOnly, kernel, policy, bounds
  <2>2. p \in Packets /\ p \in Sent(toSession) /\ Sent(toSession') \subseteq Sent(toSession)
    BY <1>1, <2>1, Rest
  <2>3. got' = got => PadInv'
    BY <2>1, <2>2, PadSame
  <2>4. CASE p.type # "State"
    BY <1>1, <1>2, <2>3, <2>4, AnswerKeeps, AckKeeps, ActionKeeps DEF ReadInput, Answers
  <2>5. CASE p.type = "State" /\ ReceiveState(p)
    <3>1. CASE got' = got
      BY <2>3, <3>1
    <3>2. CASE got' # got
      <4>1. /\ p.mode = "ui" /\ p.sample \notin {0, session.keys}
            /\ got' = [got EXCEPT ![p.sample] = @ \cup {"ui"}]
        BY <2>5, <3>2 DEF ReceiveState
      <4>2. p.sample \in Presses
        <5>1. p.sample \in Samples
          BY <2>2, <2>5 DEF Packets, Answers
        <5> QED BY <4>1, <5>1 DEF Samples
      <4> DEFINE x == p.sample
      <4>3. ToldUi(x)
        BY <2>2, <2>5, <4>1 DEF ToldUi
      <4>4. x <= presses /\ \A y \in Presses : y > presses => got[y] = {}
        BY <1>1, <2>2, <2>5 DEF PadIsRead
      <4> HIDE DEF p, x
      <4>5. got' = [got EXCEPT ![x] = @ \cup {"ui"}] /\ x \in Presses
        BY <4>1, <4>2 DEF x
      <4>6. got \in [Presses -> SUBSET (Apps \cup {"ui"})]
        BY <1>1 DEF RouterTypes
      <4>7. RouterTypes' /\ PadsNeutral'
        <5>1. got' \in [Presses -> SUBSET (Apps \cup {"ui"})]
          BY <4>5, <4>6
        <5> QED BY <1>1, <2>1, <5>1 DEF RouterTypes, PadsNeutral
      <4>8. OneParty'
        <5>1. \A y \in Presses : Reachable(y)' => Reachable(y)
          BY <2>1 DEF Reachable
        <5>2. \A y \in Presses : ToldUi(y)' => ToldUi(y)
          BY <2>2 DEF ToldUi
        <5> QED BY <1>1, <2>1, <4>3, <4>5, <4>6, <5>1, <5>2, PartyTold
      <4>9. PadIsRead'
        <5>1. \A y \in Presses : y > presses => got'[y] = {}
          <6> SUFFICES ASSUME NEW y \in Presses, y > presses PROVE got'[y] = {}
            OBVIOUS
          <6>1. y # x
            <7>1. presses \in Nat /\ x \in Nat /\ y \in Nat
              BY <1>1, <4>5, SamplesAreNumbers DEF RouterTypes
            <7> QED BY <4>4, <7>1
          <6> QED BY <4>4, <4>5, <4>6, <6>1
        <5>2. \A s \in Sent(toSession') : s.type = "State" => s.sample <= presses
          BY <1>1, <2>2 DEF PadIsRead
        <5> QED BY <1>1, <2>1, <5>1, <5>2 DEF PadIsRead
      <4> QED BY <4>7, <4>8, <4>9 DEF PadInv
    <3> QED BY <3>1, <3>2
  <2> QED BY <1>2, <2>4, <2>5 DEF ReadInput
<1>3. CASE Poll \/ PolicyReply \/ Deadline
  <2>1. /\ UNCHANGED <<pad, presses, backlog, input, deferred, mode, slot, waiting,
                       ownerPending, grantee, syncing, commandSequence, remote>>
        /\ UNCHANGED <<game, ui, pads, captures, toSession, got>>
    BY <1>3 DEF Poll, PolicyReply, Deadline, Fail, kernel, router, policy, bounds
  <2> QED BY <2>1, PadSame
<1> QED
  BY <1>2, <1>3 DEF Session

(* Every step of the desktop. *)
LEMMA DesktopPads ==
    ASSUME PadInv, captures \in Nat, Desktop
    PROVE  PadInv'
<1>1. /\ UNCHANGED <<kernel, router, got>> /\ captures' \in {captures, captures + 1}
  BY DEF Desktop, InjectGame, CancelGameInput, Launch, Started, Finished, Complete, Activate,
         ShowDesktop, Background, LeavePanel, BeginCapture, EndCapture, DesktopOnly
<1>2. captures' = 0 => captures = 0
  BY <1>1
<1>3. /\ UNCHANGED <<pad, presses, backlog, input, deferred, mode, slot, waiting,
                     ownerPending, grantee, syncing, commandSequence, remote>>
      /\ UNCHANGED <<game, ui, pads, toSession, got>>
  BY <1>1 DEF kernel, router, policy
<1> QED
  BY <1>2, <1>3, PadSame

(* How the session can have failed, and the bounds. *)
Bounded ==
    /\ failed \in {None, "deadline"}
    /\ scenes \in 0..MaxScenes /\ injects \in 0..MaxInjects /\ captures \in 0..MaxCaptures

(* Every step. *)
LEMMA BoundedKept ==
    ASSUME SessionInv, commandSequence \in Nat, Bounded, Next
    PROVE  Bounded'
<1>1. MaxScenes \in Nat /\ MaxInjects \in Nat /\ MaxCaptures \in Nat
  BY OwnershipAssumption
<1>2. CASE Press \/ Release \/ Router \/ Poll \/ PolicyReply \/ Deadline
  <2>1. CASE Press \/ Release \/ Poll \/ PolicyReply
    <3>1. UNCHANGED <<failed, scenes, injects, captures>>
      BY <2>1 DEF Press, Release, Poll, PolicyReply, bounds
    <3> QED BY <1>1, <3>1 DEF Bounded
  <2>2. CASE Router
    <3>1. RouterOnly \/ RouterExit
      BY <2>2 DEF Router, Command, ReadEvent, Idle
    <3>2. UNCHANGED <<failed, scenes, injects, captures>>
      <4>1. CASE RouterOnly
        BY <4>1 DEF RouterOnly, bounds
      <4>2. CASE RouterExit
        BY <4>2 DEF RouterExit, bounds
      <4> QED BY <3>1, <4>1, <4>2
    <3> QED BY <1>1, <3>2 DEF Bounded
  <2>3. CASE Deadline
    <3>1. UNCHANGED <<scenes, injects, captures>> /\ failed' = "deadline"
      BY <2>3 DEF Deadline, Fail, bounds
    <3> QED BY <1>1, <3>1 DEF Bounded
  <2> QED BY <1>2, <2>1, <2>2, <2>3
<1>3. CASE ReadInput
  <2>1. UNCHANGED <<scenes, injects, captures>>
    BY <1>3 DEF ReadInput, SessionOnly, bounds
  <2>2. failed' = None
    BY <1>3, StateKeeps, AnswerKeeps, AckKeeps, ActionKeeps DEF ReadInput, Answers
  <2> QED BY <2>1, <2>2 DEF Bounded
<1>4. CASE Desktop
  <2>1. /\ failed' = failed
        /\ scenes' = scenes \/ (scenes < MaxScenes /\ scenes' = scenes + 1)
        /\ injects' = injects \/ (injects < MaxInjects /\ injects' = injects + 1)
        /\ captures' = captures \/ (captures < MaxCaptures /\ captures' = captures + 1)
    BY <1>4 DEF Desktop, InjectGame, CancelGameInput, Launch, Started, Finished, Complete,
                Activate, ShowDesktop, Background, LeavePanel, BeginCapture, EndCapture,
                DesktopOnly, Counted
  <2> QED BY <1>1, <2>1 DEF Bounded
<1> QED
  BY <1>2, <1>3, <1>4 DEF Next, Session

IInv == PadInv /\ SessionInv /\ Bounded

(* The first state. *)
LEMMA InitIsOwned ==
    ASSUME Init
    PROVE  IInv
<1>1. /\ 0 \in Slots /\ MaxPresses \in Nat /\ MaxBacklog \in Nat /\ MaxScenes \in Nat
      /\ MaxInjects \in Nat /\ MaxCaptures \in Nat /\ 0 \in Samples
      /\ None \notin Apps \cup Slots
      /\ None # "ui" /\ None # "game"
  BY OwnershipAssumption DEF Samples
<1>2. PadInv
  <2>1. RouterTypes
    <3>1. /\ backlog = <<>> /\ pads = [s \in Slots |-> 0] /\ got = [p \in Presses |-> {}]
      BY DEF Init
    <3>2. backlog \in Seq(Samples \cup {Dropped}) /\ Len(backlog) <= MaxBacklog + 1
      BY <1>1, <3>1
    <3>3. pads \in [Slots -> Samples \cup {Tool}]
      BY <1>1, <3>1
    <3>4. got \in [Presses -> SUBSET (Apps \cup {"ui"})]
      BY <3>1
    <3>5. /\ pad = 0 /\ presses = 0 /\ input = 0 /\ deferred = 0 /\ mode = "ui" /\ slot = 0
          /\ waiting = TRUE /\ ownerPending = FALSE /\ syncing = FALSE /\ commandSequence = 0
          /\ remote = 0 /\ game = 0 /\ ui = 0 /\ grantee = None
      BY DEF Init
    <3>6. mode \in Modes /\ presses \in 0..MaxPresses /\ remote \in 0..commandSequence
      BY <1>1, <3>5 DEF Modes
    <3> QED BY <1>1, <3>2, <3>3, <3>4, <3>5, <3>6 DEF RouterTypes
  <2>2. PadIsRead
    <3>1. /\ backlog = <<>> /\ toSession = <<>> /\ input = 0 /\ pad = 0 /\ presses = 0
          /\ deferred = 0 /\ got = [p \in Presses |-> {}]
      BY DEF Init
    <3>2. Sent(backlog) = {} /\ Sent(toSession) = {}
      BY <3>1, Nothing
    <3> QED BY <3>1, <3>2 DEF PadIsRead
  <2>3. OneParty /\ PadsNeutral
    <3>1. \A p \in Presses : got[p] = {} /\ ~ToldUi(p)
      BY Nothing DEF Init, ToldUi
    <3> QED BY <3>1 DEF Init, OneParty, PadsNeutral
  <2> QED BY <2>1, <2>2, <2>3 DEF PadInv
<1>3. SessionInv
  <2> DEFINE c == Mode(1, "ui", 0, None)
  <2>1. c \in Commands /\ c.type = "Mode" /\ c.seq = 1 /\ c.mode = "ui" /\ c.slot = 0
        /\ c.for = None
    BY <1>1 DEF Mode, Commands, Modes
  <2>2. toRouter = <<c>> /\ toSession = <<>>
    BY DEF Init
  <2> HIDE DEF c
  <2>3. /\ Sent(toRouter) = {c} /\ toRouter \in Seq(Commands)
        /\ \A T : (Has(toRouter, T) <=> c.type \in T) /\ Once(toRouter, T)
    BY <2>1, <2>2, OneMessage
  <2>4. session = [mode |-> None, slot |-> None, requested |-> "ui", wanted |-> 0,
                   sequence |-> 1, modeSequence |-> 1, remote |-> 0,
                   keys |-> 0, wait |-> FALSE, asked |-> None,
                   agreed |-> [privacy |-> TRUE, game |-> None, panel |-> FALSE],
                   ready |-> FALSE]
    BY DEF Init
  <2>5. session \in SessionType
    BY <1>1, <2>4 DEF SessionType, Scenes, Modes
  <2>6. /\ session.requested = "ui" /\ session.wanted = 0 /\ session.sequence = 1
        /\ session.modeSequence = 1 /\ session.remote = 0 /\ session.ready = FALSE
        /\ session.agreed.privacy = TRUE /\ session.asked = None
    BY <2>4
  <2>7. commandSequence = 0 /\ remote = 0
    BY DEF Init
  <2>8. ModeFits(toRouter, toSession, session, mode, slot)
        /\ InjectFits(toRouter, toSession, session, remote)
    BY <1>1, <2>1, <2>2, <2>3, <2>6, <2>7, Nothing DEF ModeFits, InjectFits, InFlight, Answers
  <2>9. Numbered
    <3>1. Increasing(toRouter, commandSequence, session.sequence)
      BY <2>1, <2>2, <2>6, <2>7 DEF Increasing
    <3> QED BY <2>2, <2>3, <3>1, Nothing DEF Numbered
  <2>10. Tasks
    BY <1>1 DEF Init, Tasks, TasksInSlots
  <2>11. BeliefIsTrue /\ Settled
    BY <1>1, <2>6 DEF BeliefIsTrue, Settled
  <2>12. Private /\ GrantIsForOwner
    BY <1>1, <2>6 DEF Init, Private, GrantIsForOwner
  <2> QED BY <2>5, <2>6, <2>7, <2>8, <2>9, <2>10, <2>11, <2>12
          DEF SessionInv, ModeInFlight, InjectInFlight
<1>4. Bounded
  BY <1>1 DEF Init, Bounded
<1> QED
  BY <1>2, <1>3, <1>4 DEF IInv

(* Every step keeps the invariant. *)
LEMMA StepIsOwned ==
    ASSUME IInv, [Next]_vars
    PROVE  IInv'
<1>1. /\ PadInv /\ SessionInv /\ Bounded /\ RouterTypes /\ PadIsRead
      /\ commandSequence \in Nat /\ captures \in Nat /\ toSession \in Seq(Packets)
  BY OwnershipAssumption DEF IInv, PadInv, RouterTypes, Bounded, SessionInv, Numbered
<1>2. CASE Next
  <2>1. Bounded'
    BY <1>1, <1>2, BoundedKept
  <2>2. SessionInv'
    BY <1>1, <1>2, PadKeeps, RouterKeeps, SessionKeeps, DesktopKeeps DEF Next
  <2>3. PadInv'
    BY <1>1, <1>2, KernelPads, RouterPads, SessionPads, DesktopPads DEF Next
  <2> QED BY <2>1, <2>2, <2>3 DEF IInv
<1>3. CASE UNCHANGED vars
  <2>1. /\ UNCHANGED <<kernel, router, toRouter, session, failed, desktop, bounds, got>>
    BY <1>3 DEF vars
  <2>2. Bounded'
    BY <1>1, <2>1 DEF Bounded, bounds
  <2>3. /\ UNCHANGED <<pad, presses, backlog, input, deferred, mode, slot, waiting,
                       ownerPending, grantee, syncing, commandSequence, remote>>
        /\ UNCHANGED <<game, ui, pads, toSession, got, captures, session, failed, toRouter>>
        /\ UNCHANGED <<active, apps, slotOf, quickOpen, homing, capturing>>
    BY <2>1 DEF kernel, router, policy, bounds, desktop
  <2>4. PadInv'
    BY <1>1, <2>3, PadSame
  <2>5. SessionInv'
    <3>1. /\ toRouter \in Seq(Commands) /\ toSession \in Seq(Packets)
          /\ Increasing(toRouter, commandSequence, session.sequence)
          /\ commandSequence <= session.sequence
          /\ failed = None => /\ ModeFits(toRouter, toSession, session, mode, slot)
                              /\ InjectFits(toRouter, toSession, session, remote)
      BY <1>1 DEF SessionInv, Numbered, ModeInFlight, InjectInFlight
    <3> QED BY <1>1, <2>3, <3>1, RouterSame
  <2> QED BY <2>2, <2>4, <2>5 DEF IInv
<1> QED
  BY <1>2, <1>3

(* What keeps the owner from step to step, for any applications, slots and  *)
(* bounds: commands are numbered as they are sent, the one change of owner  *)
(* in flight is a Mode or its Ack, a ready desktop has what it wants, and   *)
(* until a capture every press and every grant is of one party              *)
(* (input-router.cpp, handheld.cpp).                                        *)
THEOREM OwnershipKept == Spec => []OwnershipInv
<1>1. Init => IInv
  BY InitIsOwned
<1>2. IInv /\ [Next]_vars => IInv'
  BY StepIsOwned
<1>3. IInv => OwnershipInv
  <2> SUFFICES ASSUME IInv PROVE OwnershipInv
    OBVIOUS
  <2>1. RouterTypes /\ PadIsRead /\ OneParty /\ PadsNeutral /\ SessionInv /\ Bounded
    BY DEF IInv, PadInv
  <2>2. TypeOK
    <3>1. commandSequence \in 0..session.sequence
      BY <2>1 DEF RouterTypes, SessionInv, SessionType
    <3>2. /\ {input, deferred, ui} \subseteq Samples
          /\ {waiting, ownerPending, syncing} \subseteq BOOLEAN
      BY <2>1 DEF RouterTypes
    <3>3. failed \in {None, "deadline", "protocol"}
      BY <2>1 DEF Bounded
    <3>4. presses \in 0..MaxPresses /\ remote \in 0..commandSequence
      BY <2>1 DEF RouterTypes
    <3> QED BY <2>1, <3>1, <3>2, <3>3, <3>4 DEF RouterTypes, SessionInv, Tasks, Bounded, TypeOK
  <2>3. ProtocolHolds
    BY <2>1, OwnershipAssumption DEF Bounded, ProtocolHolds
  <2> QED BY <2>1, <2>2, <2>3 DEF OwnershipInv, SessionInv, Tasks
<1> QED
  BY <1>1, <1>2, <1>3, PTL DEF Spec

(* What the session believes is what the router does, once nothing is asked *)
(* the pad is where the scene wants it, and no packet is a protocol error:  *)
(* of any applications, slots and bounds, captures included (handheld.cpp). *)
THEOREM SessionKnowsItsOwner == Spec => []SessionKnowsOwner
<1>1. OwnershipInv => SessionKnowsOwner
  <2> SUFFICES ASSUME OwnershipInv PROVE SessionKnowsOwner
    OBVIOUS
  <2>1. TypeOK /\ BeliefIsTrue /\ ProtocolHolds /\ Settled
    BY DEF OwnershipInv
  <2>2. OwnerFollowsScene
    BY <2>1 DEF Settled, Owned, BeliefIsTrue, OwnerFollowsScene
  <2> QED BY <2>1, <2>2 DEF SessionKnowsOwner
<1> QED
  BY <1>1, OwnershipKept, PTL

(* Whoever loses the pad is left with a neutral gamepad, captures included: a *)
(* virtual gamepad shows something only while its slot has the grant, and    *)
(* then what the router last wrote (input-router.cpp).                       *)
THEOREM LosersAreNeutral == Spec => []PadsNeutral
<1>1. OwnershipInv => PadsNeutral
  BY DEF OwnershipInv
<1> QED
  BY <1>1, OwnershipKept, PTL

(* Until a capture is made one press reaches one party, however it meets the *)
(* change of owner, and what is not neutral is read by the application that  *)
(* the slot was granted for (input-router.cpp). After a capture a slot may   *)
(* be granted to an application that is gone: the run ownership_reuse.       *)
THEOREM PressesAreOwned == Spec => [](captures = 0 => PressesReachOneParty)
<1>1. OwnershipInv => (captures = 0 => PressesReachOneParty)
  <2> SUFFICES ASSUME OwnershipInv, captures = 0 PROVE PressesReachOneParty
    OBVIOUS
  <2>1. PadsNeutral /\ OneParty /\ GrantIsForOwner /\ TypeOK
    BY DEF OwnershipInv
  <2>2. OnlyGranteeReads
    <3> SUFFICES ASSUME NEW s \in Slots, pads[s] # 0, OwnerOf(s) # None
                 PROVE  OwnerOf(s) = grantee
      BY DEF OnlyGranteeReads
    <3>1. mode = "game" /\ s = slot /\ s # None
      BY <2>1, OwnershipAssumption DEF PadsNeutral
    <3>2. OwnerOf(s) \in Apps /\ slotOf[OwnerOf(s)] = s
      BY OwnerHasSlot
    <3> QED BY <2>1, <3>1, <3>2 DEF GrantIsForOwner
  <2>3. OnePressOneOwner
    <3> SUFFICES ASSUME NEW p \in Presses PROVE Cardinality(got[p]) <= 1
      BY DEF OnePressOneOwner
    <3>1. PICK party : got[p] \subseteq {party}
      BY <2>1 DEF OneParty
    <3>2. IsFiniteSet({party}) /\ Cardinality({party}) = 1
      BY FS_Singleton
    <3>3. Cardinality(got[p]) <= Cardinality({party})
      BY <3>1, <3>2, FS_Subset
    <3> QED BY <3>2, <3>3
  <2> QED BY <2>1, <2>2, <2>3 DEF PressesReachOneParty
<1> QED
  BY <1>1, OwnershipKept, PTL
=============================================================================
