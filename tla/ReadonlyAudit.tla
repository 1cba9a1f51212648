---------------------------- MODULE ReadonlyAudit ----------------------------
(***************************************************************************)
(* The launcher of the read-only card audit on macOS                       *)
(* (scripts/r46h_card_macos_readonly.py).  The launcher binds the released *)
(* tool and the profile to their bytes, picks the card, opens the archive  *)
(* on an external disk, obtains sudo and starts a bootstrap as root.  The  *)
(* bootstrap freezes tool and profile in a private stage, runs the audit,  *)
(* and prints its evidence in one handoff line, which the launcher         *)
(* archives; the temporary evidence is removed last.                       *)
(*                                                                         *)
(* The files of the workspace, the card in the reader and the disk under   *)
(* the archive path may change, signals arrive, processes are killed and   *)
(* power fails.  A file version stands for the bytes.                      *)
(***************************************************************************)
EXTENDS Naturals, FiniteSets

CONSTANTS ToolVersions,   \* what the workspace may hold: tool and profile
          Cards,          \* the cards that may be in the reader
          Fitting,        \* those with the geometry of the profile
          Disks,          \* what may be mounted at the archive path
          External,       \* those proven external
          Absent,
          MaxAudits,      \* how often the launcher is started, with one audit id
          MaxChanges      \* how often the world changes, per kind

VARIABLES workspace, reader, mounted, changes,   \* the world
          audit,      \* the number of this start of the launcher
          launcher,   \* the launcher
          bootstrap,  \* the process as root and its stage
          evidence,   \* the temporary evidence of each start
          archives    \* the archives, by status

auditVars == <<workspace, reader, mounted, changes, audit, launcher, bootstrap, evidence, archives>>
world == <<workspace, reader, mounted, changes>>

Audits == 1..MaxAudits
NoArchive == [of |-> 0, entries |-> {}, synced |-> {}, claim |-> Absent]
Idle == [at |-> "bind", bound |-> Absent, card |-> Absent, disk |-> Absent,
         claimed |-> Absent, signalled |-> FALSE, result |-> Absent]
NotStarted == [at |-> "off", signalled |-> FALSE, stage |-> Absent, status |-> Absent, killed |-> FALSE]
NoEvidence == [status |-> Absent, tool |-> Absent, card |-> Absent, owner |-> "root"]

AuditInit ==
    /\ workspace \in ToolVersions /\ reader \in Cards /\ mounted \in Disks
    /\ changes = [k \in {"workspace", "reader", "mount"} |-> 0]
    /\ audit = 1 /\ launcher = Idle /\ bootstrap = NotStarted
    /\ evidence = [a \in Audits |-> NoEvidence]
    /\ archives = [s \in {"complete", "failed"} |-> NoArchive]

LauncherAt(where) == launcher.at = where
BootAt(where) == bootstrap.at = where
Goes(where) == launcher' = [launcher EXCEPT !.at = where]

(***************************************************************************)
(* Before the privileged part.                                             *)
(***************************************************************************)
(* CURRENT is the release of the clean HEAD, its receipt and manifest pin the
   tool and the profile, and the tool accepts the profile. *)
BindRelease ==
    /\ LauncherAt("bind")
    /\ launcher' = [launcher EXCEPT !.at = "discover", !.bound = workspace]
    /\ UNCHANGED <<world, audit, bootstrap, evidence, archives>>

(* Discovery shows external removable USB disks only, each once. *)
Discovered == {reader}

(* The card named by the operator is among them, once, and fits the profile. *)
SelectCandidate ==
    /\ LauncherAt("discover")
    /\ \E c \in Discovered \cap Fitting :
          launcher' = [launcher EXCEPT !.at = "identity", !.card = c]
    /\ UNCHANGED <<world, audit, bootstrap, evidence, archives>>

(* The disk under the path is external and is not the card itself. *)
AllowedDisk(d) == d \in External \ Cards

ArchiveIdentity ==
    /\ LauncherAt("identity") /\ AllowedDisk(mounted)
    /\ launcher' = [launcher EXCEPT !.at = "open", !.claimed = mounted]
    /\ UNCHANGED <<world, audit, bootstrap, evidence, archives>>

(* The directory is opened after its disk was identified. *)
OpenArchive ==
    /\ LauncherAt("open")
    /\ launcher' = [launcher EXCEPT !.at = "authorize", !.disk = mounted]
    /\ UNCHANGED <<world, audit, bootstrap, evidence, archives>>

Authorize ==
    /\ LauncherAt("authorize") /\ ~launcher.signalled
    /\ Goes("run")
    /\ bootstrap' = [NotStarted EXCEPT !.at = "start"]
    /\ UNCHANGED <<world, audit, evidence, archives>>

(***************************************************************************)
(* The bootstrap as root.                                                  *)
(***************************************************************************)
(* The sources are opened as the caller, copied, and compared with the bytes
   that were bound before sudo. *)
CopyPinned(source) == source = launcher.bound

FreezeStage ==
    /\ BootAt("start") /\ ~bootstrap.signalled
    /\ CopyPinned(workspace)
    /\ bootstrap' = [bootstrap EXCEPT !.at = "frozen", !.stage = workspace]
    /\ UNCHANGED <<world, audit, launcher, evidence, archives>>

StartAudit ==
    /\ BootAt("frozen") /\ ~bootstrap.signalled
    /\ bootstrap' = [bootstrap EXCEPT !.at = "auditing"]
    /\ UNCHANGED <<world, audit, launcher, evidence, archives>>

(* The audit tool reads the card at the attachment and ejects it, or fails and
   says so; a signal may end it before it wrote anything. *)
AuditTool ==
    /\ BootAt("auditing")
    /\ \E s \in {"complete", "failed", Absent} :
          /\ (s = Absent) => bootstrap.signalled
          /\ bootstrap' = [bootstrap EXCEPT !.at = "audited", !.status = s]
          /\ evidence' = [evidence EXCEPT ![audit] =
                [NoEvidence EXCEPT !.status = s, !.tool = bootstrap.stage, !.card = reader]]
    /\ UNCHANGED <<world, audit, launcher, archives>>

CleanupStage ==
    /\ BootAt("audited") /\ ~bootstrap.signalled
    /\ bootstrap' = [bootstrap EXCEPT !.at = "unstaged", !.stage = Absent]
    /\ UNCHANGED <<world, audit, launcher, evidence, archives>>

(* The evidence is the exact flat set for its status, the marker binds the
   receipt; then it is given to the caller. *)
ExactFiles ==
    /\ BootAt("unstaged") /\ bootstrap.status # Absent
    /\ bootstrap' = [bootstrap EXCEPT !.at = "exact"]
    /\ evidence' = [evidence EXCEPT ![audit].owner = "caller"]
    /\ UNCHANGED <<world, audit, launcher, archives>>

SendHandoff ==
    /\ BootAt("exact") /\ ~bootstrap.signalled
    /\ bootstrap' = [bootstrap EXCEPT !.at = "sent"]
    /\ UNCHANGED <<world, audit, launcher, evidence, archives>>

(* A check or call fails, or a signal was forwarded: the audit is stopped and
   waited for, the stage removed, no line printed. *)
BootstrapFails ==
    /\ bootstrap.at \notin {"off", "sent", "ended"}
    /\ bootstrap' = [bootstrap EXCEPT !.at = "ended", !.stage = Absent]
    /\ UNCHANGED <<world, audit, launcher, evidence, archives>>

(* The process group is killed 130 seconds after the signal. *)
KillGroup ==
    /\ LauncherAt("run") /\ launcher.signalled
    /\ bootstrap.at \notin {"off", "sent", "ended"}
    /\ bootstrap' = [bootstrap EXCEPT !.at = "ended", !.killed = TRUE]
    /\ UNCHANGED <<world, audit, launcher, evidence, archives>>

(***************************************************************************)
(* After the privileged part.                                              *)
(***************************************************************************)
(* One handoff line with the token of this run, whose name, status and exit
   code agree, and no signal in between. *)
TakeHandoff ==
    /\ LauncherAt("run") /\ BootAt("sent") /\ ~launcher.signalled
    /\ launcher' = [launcher EXCEPT !.at = "revalidate", !.result = evidence[audit]]
    /\ bootstrap' = [bootstrap EXCEPT !.at = "ended"]
    /\ UNCHANGED <<world, audit, evidence, archives>>

(* The path still is the directory that was opened, on the disk that was
   identified. *)
ArchiveRootHolds == mounted = launcher.disk /\ mounted = launcher.claimed

Revalidate ==
    /\ LauncherAt("revalidate") /\ ArchiveRootHolds
    /\ Goes("validate")
    /\ UNCHANGED <<world, audit, bootstrap, evidence, archives>>

(* A completed receipt names the bound tool and profile, the audit and the
   selected card, field by field, down to the recomputed layout id. *)
ReceiptValid(r) == r.tool = launcher.bound /\ r.card = launcher.card

ValidateReceipt ==
    /\ LauncherAt("validate")
    /\ launcher.result.status = "complete" => ReceiptValid(launcher.result)
    /\ Goes("mkdir")
    /\ UNCHANGED <<world, audit, bootstrap, evidence, archives>>

Status == launcher.result.status
Writes(name) == archives' = [archives EXCEPT ![Status].entries = @ \cup {name}]
SyncDirectory == archives' = [archives EXCEPT ![Status].synced = archives[Status].entries]

(* The archive directory of this audit id must be new; its name is synced. *)
MakeArchive ==
    /\ LauncherAt("mkdir") /\ archives[Status] = NoArchive
    /\ archives' = [archives EXCEPT ![Status] =
           [NoArchive EXCEPT !.of = audit, !.claim = launcher.result]]
    /\ Goes("files")
    /\ UNCHANGED <<world, audit, bootstrap, evidence>>

(* Each file is created new and synced, AUDIT-COMPLETE last. *)
WriteFiles ==
    /\ LauncherAt("files") /\ Writes("files") /\ Goes("manifest")
    /\ UNCHANGED <<world, audit, bootstrap, evidence>>

WriteManifest ==
    /\ LauncherAt("manifest") /\ Writes("HANDOFF.json") /\ Goes("sync")
    /\ UNCHANGED <<world, audit, bootstrap, evidence>>

\* mutant: the marker is written before the names beside it are durable
SyncManifestLater ==
    /\ LauncherAt("sync") /\ Goes("mark")
    /\ UNCHANGED <<world, audit, bootstrap, evidence, archives>>

SyncManifest ==
    /\ LauncherAt("sync") /\ SyncDirectory /\ Goes("mark")
    /\ UNCHANGED <<world, audit, bootstrap, evidence>>

WriteComplete ==
    /\ LauncherAt("mark") /\ Writes("HANDOFF-COMPLETE") /\ Goes("sync mark")
    /\ UNCHANGED <<world, audit, bootstrap, evidence>>

SyncComplete ==
    /\ LauncherAt("sync mark") /\ SyncDirectory /\ Goes("cleanup")
    /\ UNCHANGED <<world, audit, bootstrap, evidence>>

(* The temporary evidence is removed only if it is the caller's and holds,
   member by member, what was archived. *)
CleanupEvidence ==
    /\ LauncherAt("cleanup")
    /\ evidence' = [evidence EXCEPT ![audit] =
          IF evidence[audit] = launcher.result THEN NoEvidence ELSE evidence[audit]]
    /\ Goes("ended")
    /\ UNCHANGED <<world, audit, bootstrap, archives>>

(***************************************************************************)
(* What goes wrong, and the world.                                         *)
(***************************************************************************)
(* A check or call fails; while the bootstrap runs only once that has ended.
   What is archived and the temporary evidence stay. *)
LauncherFails ==
    /\ launcher.at # "ended"
    /\ LauncherAt("run") => bootstrap.at \in {"sent", "ended"}
    /\ launcher' = [launcher EXCEPT !.at = "ended"]
    /\ bootstrap' = [bootstrap EXCEPT !.at = "ended"]
    /\ UNCHANGED <<world, audit, evidence, archives>>

(* A signal while sudo or the bootstrap runs is remembered and forwarded to the
   whole group; a bootstrap without its handlers yet simply ends. *)
Forward ==
    /\ launcher.at \in {"authorize", "run"} /\ ~launcher.signalled
    /\ launcher' = [launcher EXCEPT !.signalled = TRUE]
    /\ IF bootstrap.at \in {"off", "sent", "ended"} THEN UNCHANGED bootstrap
       ELSE \/ bootstrap' = [bootstrap EXCEPT !.signalled = TRUE]
            \/ BootAt("start") /\ bootstrap' = [bootstrap EXCEPT !.at = "ended"]
    /\ UNCHANGED <<world, audit, evidence, archives>>

(* Power fails: of the names in a directory that was not synced any may be lost. *)
PowerLoss ==
    /\ launcher.at # "ended"
    /\ launcher' = [launcher EXCEPT !.at = "ended"]
    /\ bootstrap' = [bootstrap EXCEPT !.at = "ended", !.stage = Absent]
    /\ \E keep \in SUBSET {"files", "HANDOFF.json", "HANDOFF-COMPLETE"} :
          archives' = [s \in DOMAIN archives |->
              [archives[s] EXCEPT
                  !.entries = archives[s].synced \cup (keep \cap archives[s].entries),
                  !.synced = archives[s].synced \cup (keep \cap archives[s].entries)]]
    /\ UNCHANGED <<world, audit, evidence>>

(* The operator starts the launcher again with the same audit id. *)
RunAgain ==
    /\ LauncherAt("ended") /\ audit < MaxAudits
    /\ audit' = audit + 1 /\ launcher' = Idle /\ bootstrap' = NotStarted
    /\ UNCHANGED <<world, evidence, archives>>

Changes(kind) ==
    /\ changes[kind] < MaxChanges
    /\ changes' = [changes EXCEPT ![kind] = @ + 1]

WorldChanges ==
    /\ \/ /\ Changes("workspace") /\ workspace' \in ToolVersions \ {workspace}
          /\ UNCHANGED <<reader, mounted>>
       \/ /\ Changes("reader") /\ reader' \in Cards \ {reader}
          /\ UNCHANGED <<workspace, mounted>>
       \/ /\ Changes("mount") /\ mounted' \in Disks \ {mounted}
          /\ UNCHANGED <<workspace, reader>>
    /\ UNCHANGED <<audit, launcher, bootstrap, evidence, archives>>

AuditNext ==
    \/ BindRelease \/ SelectCandidate \/ ArchiveIdentity \/ OpenArchive \/ Authorize
    \/ FreezeStage \/ StartAudit \/ AuditTool \/ CleanupStage \/ ExactFiles \/ SendHandoff
    \/ BootstrapFails \/ KillGroup
    \/ TakeHandoff \/ Revalidate \/ ValidateReceipt \/ MakeArchive \/ WriteFiles
    \/ WriteManifest \/ SyncManifest \/ WriteComplete \/ SyncComplete \/ CleanupEvidence
    \/ LauncherFails \/ Forward \/ PowerLoss \/ RunAgain \/ WorldChanges

AuditSpec == AuditInit /\ [][AuditNext]_auditVars

-----------------------------------------------------------------------------
Marked(s) == "HANDOFF-COMPLETE" \in archives[s].entries

(* An archive with HANDOFF-COMPLETE, also one found after a power loss, has
   every file that its manifest names, and a complete one is the audit of the
   selected card by the tool that was bound before sudo: never of a card put
   in later, or with a tool built meanwhile. *)
HandoffIsTrue ==
    \A s \in DOMAIN archives : Marked(s) =>
        /\ {"files", "HANDOFF.json"} \subseteq archives[s].entries
        /\ archives[s].claim.status = s
        /\ s = "complete" /\ archives[s].of = audit =>
              archives[s].claim.tool = launcher.bound /\ archives[s].claim.card = launcher.card

(* Of every step: what an audit has found is not lost, its temporary evidence
   is there until a synced archive holds it, whatever is killed in between and although
   a second run has the same audit id. *)
EvidenceIsKept ==
    \A a \in Audits :
        evidence[a].status # Absent /\ evidence'[a].status = Absent =>
            \E s \in DOMAIN archives :
                /\ archives[s].of = a /\ archives[s].claim = evidence[a]
                /\ "HANDOFF-COMPLETE" \in archives[s].synced

(* The records, and what the two steps of evidence and archive rest on: the
   bootstrap of this start runs while the launcher waits for it, and has found
   nothing before the audit tool ran; what the launcher archives is this start's
   evidence, still there; and the archive it writes is its own, with every name
   that the marker stands for synced before the marker. *)
Statuses == {"complete", "failed"}
Early == {"bind", "discover", "identity", "open", "authorize"}
Writing == {"files", "manifest", "sync", "mark", "sync mark", "cleanup"}
Judging == {"revalidate", "validate", "mkdir"}
Listed == {"files", "HANDOFF.json"}

Evidences == [status : Statuses \cup {Absent}, tool : ToolVersions \cup {Absent},
              card : Cards \cup {Absent}, owner : {"root", "caller"}]

Launchers ==
    [at : {"bind", "discover", "identity", "open", "authorize", "run", "revalidate", "validate",
           "mkdir", "files", "manifest", "sync", "mark", "sync mark", "cleanup", "ended"},
     bound : ToolVersions \cup {Absent}, card : Cards \cup {Absent},
     disk : Disks \cup {Absent}, claimed : Disks \cup {Absent},
     signalled : BOOLEAN, result : Evidences \cup {Absent}]

Bootstraps ==
    [at : {"off", "start", "frozen", "auditing", "audited", "unstaged", "exact", "sent", "ended"},
     signalled : BOOLEAN, stage : ToolVersions \cup {Absent},
     status : Statuses \cup {Absent}, killed : BOOLEAN]

Archives ==
    [of : Nat, entries : SUBSET {"files", "HANDOFF.json", "HANDOFF-COMPLETE"},
     synced : SUBSET {"files", "HANDOFF.json", "HANDOFF-COMPLETE"}, claim : Evidences \cup {Absent}]

AuditTypes ==
    /\ workspace \in ToolVersions /\ reader \in Cards /\ mounted \in Disks /\ audit \in Audits
    /\ launcher \in Launchers /\ bootstrap \in Bootstraps
    /\ evidence \in [Audits -> Evidences] /\ archives \in [Statuses -> Archives]

BootFollows ==
    /\ launcher.at \in Early => bootstrap.at = "off"
    /\ launcher.at = "run" => bootstrap.at # "off"
    /\ bootstrap.at \in {"off", "start", "frozen", "auditing"} => evidence[audit] = NoEvidence
    /\ bootstrap.at = "audited" => evidence[audit].status = bootstrap.status
    /\ bootstrap.at = "unstaged" => evidence[audit].status = bootstrap.status
    /\ bootstrap.at \in {"exact", "sent"} => evidence[audit].status \in Statuses
    /\ bootstrap.at \notin {"off", "ended"} => launcher.at = "run"
    /\ \A a \in Audits : a > audit => evidence[a] = NoEvidence

ResultIsEvidence ==
    launcher.at \in Judging \cup Writing =>
        /\ launcher.result = evidence[audit] /\ Status \in Statuses
        /\ launcher.at \in Writing \cup {"mkdir"} /\ Status = "complete"
              => ReceiptValid(launcher.result)

ArchiveIsOwn ==
    /\ launcher.at \in Early \cup {"run"} \cup Judging =>
          \A s \in Statuses : archives[s].of # audit
    /\ launcher.at \in Writing =>
          archives[Status].of = audit /\ archives[Status].claim = launcher.result
    /\ launcher.at = "manifest" => "files" \in archives[Status].entries
    /\ launcher.at = "sync" => Listed \subseteq archives[Status].entries
    /\ launcher.at \in {"mark", "sync mark"} => Listed \subseteq archives[Status].synced
    /\ launcher.at = "sync mark" => Marked(Status)
    /\ launcher.at = "cleanup" => "HANDOFF-COMPLETE" \in archives[Status].synced

ArchivesHold ==
    \A s \in Statuses :
        /\ archives[s].of <= audit /\ archives[s].synced \subseteq archives[s].entries
        /\ archives[s].of = 0 => archives[s].entries = {}
        /\ archives[s].of # 0 => archives[s].claim.status = s
        /\ Marked(s) => Listed \subseteq archives[s].synced
        /\ s = "complete" /\ archives[s].of = audit => ReceiptValid(archives[s].claim)

AuditInv == AuditTypes /\ BootFollows /\ ResultIsEvidence /\ ArchiveIsOwn /\ ArchivesHold
=============================================================================
