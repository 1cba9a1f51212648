--------------------------- MODULE RemoteControl ---------------------------
(***************************************************************************)
(* The remote control of the shell: the host's client (gaming-shell/       *)
(* control.py) sends one request per connection, the shell (control.cpp)   *)
(* executes an action only in the session and at the sequence number the   *)
(* client last observed.  Requests and answers may be late or lost, the    *)
(* shell may be restarted, possibly as another binary, and the client may  *)
(* be killed while it publishes a result.                                  *)
(***************************************************************************)
EXTENDS Naturals, FiniteSets, Sequences

CONSTANTS Clients,     \* hosts that may run the client at the same time
          Binaries,    \* the binaries the shell may be
          MaxRestarts, \* restarts of the shell (a bound of the model)
          MaxRequests, \* requests in all (a bound of the model)
          MaxSamples   \* samples of a recording

None == [op |-> "none", session |-> 0, seq |-> 0, bin |-> "none", id |-> 0]

VARIABLES session, seq, bin,  \* the shell: its session, sequence number and binary
          served,             \* the request whose connection the shell holds
          injecting,          \* whether its game input is being injected
          acts,               \* the actions executed: where, and who asked, in which state
          out, back,          \* requests and answers on their way
          know,               \* what each client knows from its last good answer
          at, want, samples,  \* each client: its step, its request, its recording
          picture, trace,     \* the results published, by request
          requests

shell == <<session, seq, bin, served, injecting, acts>>
host == <<know, at, want, samples>>
files == <<picture, trace>>
controlVars == <<shell, out, back, host, files, requests>>

ControlInit ==
    /\ session = 1 /\ seq = 0 /\ bin \in Binaries
    /\ served = None /\ injecting = FALSE /\ acts = {} /\ out = {} /\ back = {}
    /\ know = [c \in Clients |-> None] /\ at = [c \in Clients |-> "idle"]
    /\ want = [c \in Clients |-> None] /\ samples = [c \in Clients |-> <<>>]
    /\ picture = {} /\ trace = {} /\ requests = 0

Ops == {"observe", "tap", "game", "record"}
Mutates(r) == r.op \in {"tap", "game"}

(***************************************************************************)
(* The client.                                                             *)
(***************************************************************************)
(* A request is made: an action repeats session, sequence and binary of an
   observation, which the operator may have used before. *)
Send(c, op) ==
    /\ at[c] = "idle" \/ (at[c] = "recording" /\ op = "record")
    /\ requests < MaxRequests /\ requests' = requests + 1
    /\ LET r == [know[c] EXCEPT !.op = op, !.id = requests + 1] IN
       /\ Mutates(r) => know[c] # None
       /\ want' = [want EXCEPT ![c] = r] /\ out' = out \cup {r}
    /\ at' = [at EXCEPT ![c] = "waiting"]
    /\ UNCHANGED <<shell, back, know, samples, files>>

(* The answer must be of this request; that of an action must be of the same
   session and the next sequence number; the binary the one that is expected. *)
Valid(r, a) ==
    /\ Mutates(r) => a.session = r.session /\ a.seq = r.seq + 1
    /\ r.bin \in {"none", a.bin}

(* The first sample fixes session and binary of a recording. *)
SameTarget(c, a) ==
    \A i \in DOMAIN samples[c] : samples[c][i].session = a.session /\ samples[c][i].bin = a.bin

(* A recording that meets another target, or no answer, keeps its samples. *)
EndEarly(c) == at' = [at EXCEPT ![c] = IF samples[c] = <<>> THEN "idle" ELSE "trace"]

GetAnswer(c, a) ==
    /\ at[c] = "waiting" /\ a.id = want[c].id /\ back' = back \ {a}
    /\ \/ /\ ~(Valid(want[c], a) /\ (want[c].op = "record" => SameTarget(c, a)))
          /\ EndEarly(c) /\ UNCHANGED <<know, samples>>
       \/ /\ Valid(want[c], a) /\ want[c].op # "record"
          /\ at' = [at EXCEPT ![c] = "picture"] /\ know' = [know EXCEPT ![c] = a]
          /\ UNCHANGED samples
       \/ /\ Valid(want[c], a) /\ want[c].op = "record" /\ SameTarget(c, a)
          /\ samples' = [samples EXCEPT ![c] = Append(@, a)]
          /\ at' = [at EXCEPT ![c] = IF Len(samples'[c]) = MaxSamples THEN "trace" ELSE "recording"]
          /\ UNCHANGED know
    /\ UNCHANGED <<shell, out, want, files, requests>>

(* No answer before the deadline, or a refusal: nothing is known of the action. *)
GiveUp(c) ==
    /\ at[c] = "waiting" /\ EndEarly(c)
    /\ UNCHANGED <<shell, out, back, know, want, samples, files, requests>>

(* save_result: the picture first, then the record that names it. *)
SavePicture(c) ==
    /\ at[c] = "picture" /\ at' = [at EXCEPT ![c] = "trace"]
    /\ picture' \in {picture, picture \cup {want[c].id}}
    /\ UNCHANGED <<shell, out, back, know, want, samples, trace, requests>>

SaveTrace(c) ==
    /\ at[c] = "trace" /\ at' = [at EXCEPT ![c] = "idle"]
    /\ trace' = trace \cup {[id |-> want[c].id, picture |-> want[c].id \in picture,
                             samples |-> samples[c]]}
    /\ samples' = [samples EXCEPT ![c] = <<>>]
    /\ UNCHANGED <<shell, out, back, know, want, picture, requests>>

(* A record that cannot be published takes its picture with it. *)
TraceFails(c) ==
    /\ at[c] = "trace" /\ at' = [at EXCEPT ![c] = "idle"]
    /\ picture' = picture \ {want[c].id} /\ samples' = [samples EXCEPT ![c] = <<>>]
    /\ UNCHANGED <<shell, out, back, know, want, trace, requests>>

(***************************************************************************)
(* The shell: one connection at a time.                                    *)
(***************************************************************************)
Connect(r) ==
    /\ served = None /\ served' = r /\ out' = out \ {r}
    /\ UNCHANGED <<session, seq, bin, injecting, acts, back, host, files, requests>>

(* A connection beyond the one served is closed. *)
Refuse(r) ==
    /\ out' = out \ {r} /\ UNCHANGED <<shell, back, host, files, requests>>

(* The connection ends, also after three seconds; game input is cancelled. *)
Disconnect ==
    /\ served # None /\ served' = None /\ injecting' = FALSE
    /\ UNCHANGED <<session, seq, bin, acts, out, back, host, files, requests>>

\* mutant: the sequence number is not compared
CurrentSession(r) == r.session = session /\ r.bin = bin

(* An action is executed only in this session, by this binary, and at this
   sequence number, which it moves on.  Game input is answered when it ends. *)
Current(r) == r.session = session /\ r.bin = bin /\ r.seq = seq

Answer == [op |-> served.op, session |-> session, seq |-> seq', bin |-> bin, id |-> served.id]

Reply == back' = back \cup {Answer} /\ served' = None /\ injecting' = FALSE

Observe ==
    /\ served # None /\ ~Mutates(served) /\ UNCHANGED seq /\ Reply
    /\ UNCHANGED <<session, bin, acts, out, host, files, requests>>

Execute ==
    /\ served # None /\ Mutates(served) /\ ~injecting /\ Current(served)
    /\ seq' = seq + 1
    /\ acts' = acts \cup {[session |-> session, seq |-> seq, bin |-> bin,
                           asked |-> served.seq, id |-> served.id]}
    /\ IF served.op = "game" THEN injecting' = TRUE /\ UNCHANGED <<served, back>> ELSE Reply
    /\ UNCHANGED <<session, bin, out, host, files, requests>>

GameEnds ==
    /\ injecting /\ UNCHANGED seq /\ Reply
    /\ UNCHANGED <<session, bin, acts, out, host, files, requests>>

Stale ==
    /\ served # None /\ Mutates(served) /\ ~injecting /\ ~Current(served) /\ served' = None
    /\ UNCHANGED <<session, seq, bin, injecting, acts, out, back, host, files, requests>>

(* The shell is restarted: a new session, from the start of its sequence. *)
Restart ==
    /\ session <= MaxRestarts /\ session' = session + 1 /\ seq' = 0
    /\ bin' \in Binaries /\ served' = None /\ injecting' = FALSE
    /\ UNCHANGED <<acts, out, back, host, files, requests>>

ControlNext ==
    \/ \E c \in Clients :
        \/ \E op \in Ops : Send(c, op)
        \/ \E a \in back : GetAnswer(c, a)
        \/ GiveUp(c) \/ SavePicture(c) \/ SaveTrace(c) \/ TraceFails(c)
    \/ \E r \in out : Connect(r) \/ Refuse(r)
    \/ Disconnect \/ Observe \/ Execute \/ GameEnds \/ Stale \/ Restart

ControlSpec == ControlInit /\ [][ControlNext]_controlVars

(* What was observed once is acted on once: however often a request is repeated
   after a lost answer, and whoever else acts, one action follows one state. *)
ActsOnce ==
    \A a, b \in acts : a.session = b.session /\ a.asked = b.asked => a = b

(* An answered action was executed, for this request and on the binary the
   operator looked at (validate_response, main). *)
AnswerIsOwnAct ==
    \A c \in Clients :
        at[c] = "picture" /\ Mutates(want[c]) =>
            \E a \in acts : /\ a.id = want[c].id /\ a.session = want[c].session
                            /\ a.seq = want[c].seq /\ a.bin = want[c].bin

(* A record that names a picture finds it, and a recording never mixes two
   sessions or binaries (save_result, record_samples). *)
RecordIsWhole ==
    \A t \in trace :
        /\ t.picture => t.id \in picture
        /\ \A i, j \in DOMAIN t.samples :
            t.samples[i].session = t.samples[j].session /\ t.samples[i].bin = t.samples[j].bin
-----------------------------------------------------------------------------
(* What keeps the three of them from step to step.                         *)

Msgs == [op : Ops \cup {"none"}, session : Nat, seq : Nat, bin : Binaries \cup {"none"}, id : Nat]

MsgTypes ==
    /\ session \in Nat /\ seq \in Nat /\ requests \in Nat /\ bin \in Binaries
    /\ served \in Msgs /\ injecting \in BOOLEAN /\ out \subseteq Msgs /\ back \subseteq Msgs
    /\ know \in [Clients -> Msgs] /\ want \in [Clients -> Msgs]
    /\ at \in [Clients -> {"idle", "waiting", "recording", "picture", "trace"}]
    /\ samples \in [Clients -> Seq(Msgs)]

ActTypes == \A a \in acts : a.session \in Nat /\ a.asked \in Nat

(* What was executed in this session was asked for at a sequence number that is
   past; no action was executed in a session that is to come. *)
PastIsPast == \A a \in acts : a.session <= session /\ (a.session = session => a.asked < seq)

ActsInv == session \in Nat /\ seq \in Nat /\ ActTypes /\ PastIsPast /\ ActsOnce

Travelling == out \cup (IF served = None THEN {} ELSE {served})

(* No two requests have one id, and what travels under the id that a client wants
   is its request. *)
IdsAreOwn ==
    /\ \A r \in Travelling \cup back : 1 <= r.id /\ r.id <= requests
    /\ \A c \in Clients :
        /\ want[c].id <= requests
        /\ at[c] \in {"waiting", "picture", "trace"} => 1 <= want[c].id
        /\ \A r \in Travelling : r.id = want[c].id => r = want[c]
        /\ \A d \in Clients : c # d /\ want[c].id = want[d].id => want[c].id = 0

Done(r) ==
    \E a \in acts : a.id = r.id /\ a.session = r.session /\ a.seq = r.seq /\ a.bin = r.bin

(* Game input that is injected was executed, and so was every action that has an
   answer on its way to the client that wants it. *)
AnswersAreDone ==
    /\ injecting => served # None /\ Mutates(served) /\ Done(served)
    /\ \A c \in Clients : \A a \in back :
        a.id = want[c].id /\ Mutates(want[c]) => Done(want[c])

(* A client that is to publish has published nothing under its id yet, and what
   it recorded is of one session and binary. *)
RecordsAreOwn ==
    /\ \A t \in trace : t.id \in Nat /\ t.id <= requests
    /\ \A c \in Clients :
        /\ at[c] \in {"waiting", "picture", "trace"} => \A t \in trace : t.id # want[c].id
        /\ \A i, j \in DOMAIN samples[c] :
            /\ samples[c][i].session = samples[c][j].session
            /\ samples[c][i].bin = samples[c][j].bin

RequestInv ==
    /\ MsgTypes /\ ActsInv /\ IdsAreOwn /\ AnswersAreDone /\ RecordsAreOwn
    /\ AnswerIsOwnAct /\ RecordIsWhole
=============================================================================
