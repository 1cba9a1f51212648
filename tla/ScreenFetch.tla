------------------------------ MODULE ScreenFetch ------------------------------
(* gaming-remote-screen/fetch-screen.py: a host asks the handheld to capture its
   screen, gets a marker (name, size, digest), downloads the export into a
   temporary file, validates it, links it to its final name without replacing
   anything, validates it again and only then asks the handheld to remove the
   export.  Two fetches of one operator share the output directory.  The picture
   is a sequence of chunks; ValidatePngStructure is the loop of the code over
   them, compared with WellFormed, what a complete picture is.                *)
EXTENDS Sequences, FiniteSets, Naturals

CONSTANTS Fetches,      \* concurrent fetches, all of one operator
          Names,        \* names the capture helper of the handheld chooses from
          Lengths,      \* lengths of the chunk sequences that are downloaded
          MaxFaults     \* bound: failed commands, interruptions, damaged bytes

None == "none"

\* No file: the empty sequence of chunks.
NoFile == <<>>

\* Chunk types, with a text chunk for what a decoder may skip and a damaged
\* chunk for one that is truncated, too long or fails its checksum.
Types == {"IHDR", "IDAT", "tEXt", "IEND", "damaged"}

Pictures == UNION {[1..n -> Types] : n \in Lengths}

VARIABLES pc,        \* [Fetches -> step]
          marker,    \* [Fetches -> name given by the capture, or None]
          export,    \* handheld: name -> the picture exported under it, or NoFile
          temp,      \* [Fetches -> the temporary file: a picture or NoFile]
          final,     \* local output directory: name -> picture or NoFile
          told,      \* [Fetches -> None, "pass", "pending" or "error"]
          faults

fetchVars == <<pc, marker, export, temp, final, told, faults>>

-----------------------------------------------------------------------------
(* validate_png_structure: one pass over the chunks with three flags. *)

Begun == [bad |-> FALSE, index |-> 0, saw |-> FALSE, closed |-> FALSE, ended |-> FALSE]

ScanChunk(s, type, last) ==
  LET bad == \/ type = "damaged"
             \/ (s.index = 0) # (type = "IHDR")
             \/ type = "IDAT" /\ s.closed
             \/ type = "IEND" /\ ~last
  IN [bad    |-> s.bad \/ bad,
      index  |-> s.index + 1,
      saw    |-> s.saw \/ type = "IDAT",
      closed |-> s.closed \/ (type # "IDAT" /\ s.saw),
      ended  |-> s.ended \/ type = "IEND"]

Scan(p) ==
  LET f[i \in 0..Len(p)] == IF i = 0 THEN Begun ELSE ScanChunk(f[i - 1], p[i], i = Len(p))
  IN f[Len(p)]

ValidatePngStructure(p) == LET s == Scan(p) IN ~s.bad /\ s.saw /\ s.ended

\* A complete picture: a header, one run of image data among skippable chunks,
\* and an end that is the last chunk.
WellFormed(p) ==
  LET At(t) == {i \in 1..Len(p) : p[i] = t}
  IN /\ At("damaged") = {} /\ At("IHDR") = {1} /\ At("IEND") = {Len(p)}
     /\ At("IDAT") # {}
     /\ \A i, j \in At("IDAT") : \A k \in i..j : k \in At("IDAT")

\* validate_png: size and digest of the marker, then the structure.
ValidatePng(p, expected) == p = expected /\ ValidatePngStructure(p)

-----------------------------------------------------------------------------
FetchInit ==
  /\ pc = [f \in Fetches |-> "capture"]
  /\ marker = [f \in Fetches |-> None]
  /\ export = [n \in Names |-> NoFile]
  /\ temp = [f \in Fetches |-> NoFile]
  /\ final = [n \in Names |-> NoFile]
  /\ told = [f \in Fetches |-> None]
  /\ faults = 0

Move(f, from, to) == pc[f] = from /\ pc' = [pc EXCEPT ![f] = to]
Fault             == faults < MaxFaults /\ faults' = faults + 1
Fail(f)           == /\ pc' = [pc EXCEPT ![f] = "end"]
                     /\ told' = [told EXCEPT ![f] = "error"]
                     /\ temp' = [temp EXCEPT ![f] = NoFile]

\* The helper picks a name it has no export for and captures whatever the screen
\* shows; the local name must be free.
Capture(f) ==
  \E n \in Names, p \in Pictures :
    /\ export[n] = NoFile
    /\ final[n] = NoFile
    /\ Move(f, "capture", "download")
    /\ export' = [export EXCEPT ![n] = p]
    /\ marker' = [marker EXCEPT ![f] = n]
    /\ UNCHANGED <<temp, final, told, faults>>

\* The capture or its answer fails, or its name is taken in the output directory:
\* an export that exists by then stays on the handheld.
CaptureFails(f) ==
  /\ pc[f] = "capture" /\ Fail(f)
  /\ \/ Fault /\ UNCHANGED export
     \/ \E n \in Names, p \in Pictures :
          /\ export[n] = NoFile
          /\ export' = [export EXCEPT ![n] = p]
          /\ \/ final[n] # NoFile /\ UNCHANGED faults
             \/ Fault
  /\ UNCHANGED <<marker, final>>

\* The bytes arrive as they are exported, or damaged on the way.
Download(f) ==
  /\ Move(f, "download", "check")
  /\ \/ temp' = [temp EXCEPT ![f] = export[marker[f]]] /\ UNCHANGED faults
     \/ Fault /\ temp' = [temp EXCEPT ![f] = <<"damaged">>]
  /\ UNCHANGED <<marker, export, final, told>>

CheckTemporary(f) ==
  /\ pc[f] = "check" /\ ValidatePng(temp[f], export[marker[f]])
  /\ Move(f, "check", "link")
  /\ UNCHANGED <<marker, export, temp, final, told, faults>>

\* os.link refuses a name that exists.
LinkFinal(f) ==
  /\ Move(f, "link", "recheck")
  /\ final[marker[f]] = NoFile
  /\ final' = [final EXCEPT ![marker[f]] = temp[f]]
  /\ temp' = [temp EXCEPT ![f] = NoFile]
  /\ UNCHANGED <<marker, export, told, faults>>

Recheck(f) ==
  /\ pc[f] = "recheck" /\ ValidatePng(final[marker[f]], export[marker[f]])
  /\ Move(f, "recheck", "remove")
  /\ UNCHANGED <<marker, export, temp, final, told, faults>>

\* Whatever goes wrong before the removal leaves the export on the handheld; a
\* final file that fails its second check is taken back, one that was complete
\* when the operator interrupted stays.
FetchFails(f) ==
  /\ Fail(f)
  /\ \/ pc[f] = "check" /\ ~ValidatePng(temp[f], export[marker[f]]) /\ UNCHANGED <<final, faults>>
     \/ pc[f] = "link" /\ final[marker[f]] # NoFile /\ UNCHANGED <<final, faults>>
     \/ pc[f] = "recheck" /\ Fault /\ final' = [final EXCEPT ![marker[f]] = NoFile]
     \/ pc[f] \in {"download", "check", "link", "recheck", "remove"} /\ Fault /\ UNCHANGED final
  /\ UNCHANGED <<marker, export>>

\* Removal by name, size and digest; a failure or another answer is a warning,
\* and the removal may have happened although its answer was lost.
RemoteRemove(f) ==
  /\ Move(f, "remove", "end")
  /\ \/ /\ export' = [export EXCEPT ![marker[f]] = NoFile]
        /\ told' = [told EXCEPT ![f] = "pass"] /\ UNCHANGED faults
     \/ /\ Fault /\ told' = [told EXCEPT ![f] = "pending"]
        /\ export' \in {export, [export EXCEPT ![marker[f]] = NoFile]}
  /\ UNCHANGED <<marker, temp, final>>

FetchNext == \E f \in Fetches :
  \/ Capture(f) \/ CaptureFails(f) \/ Download(f) \/ CheckTemporary(f) \/ LinkFinal(f)
  \/ Recheck(f) \/ FetchFails(f) \/ RemoteRemove(f)

FetchSpec == FetchInit /\ [][FetchNext]_fetchVars

-----------------------------------------------------------------------------
(* Of every step: a picture is never in neither place, an export leaves the handheld only while
   the same picture is in the output directory, whatever failed in between.   *)
NoPictureLost ==
  \A n \in Names : export[n] # NoFile /\ export'[n] = NoFile => final'[n] = export[n]

(* What the output directory shows is a complete picture: the flags of the one
   pass over the chunks refuse every order of chunks that is not one.         *)
FinalIsPicture == \A n \in Names : final[n] # NoFile => WellFormed(final[n])

(* Of every step: a picture that was published is not replaced by another fetch, and is taken
   back only by the fetch that linked it, before it reported.                 *)
NothingReplaced ==
  \A n \in Names : final[n] # NoFile /\ final'[n] # final[n] =>
    /\ final'[n] = NoFile
    /\ \E f \in Fetches : marker[f] = n /\ pc[f] = "recheck" /\ told'[f] = "error"
-----------------------------------------------------------------------------
(* What keeps them from step to step.  A fetch that has its marker owns the export
   of that name and, once it linked it, the picture; what is linked was checked. *)
FetchSteps == {"capture", "download", "check", "link", "recheck", "remove", "end"}
Busy == {"download", "check", "link", "recheck", "remove"}
Chunks == Pictures \cup {NoFile, <<"damaged">>}

FetchTypes ==
  /\ pc \in [Fetches -> FetchSteps] /\ marker \in [Fetches -> Names \cup {None}]
  /\ export \in [Names -> Chunks] /\ final \in [Names -> Chunks]
  /\ temp \in [Fetches -> Chunks]
  /\ told \in [Fetches -> {None, "pass", "pending", "error"}]

ExportIsOwned ==
  /\ \A f \in Fetches : pc[f] \in Busy => marker[f] \in Names /\ export[marker[f]] # NoFile
  /\ \A f, g \in Fetches : f # g /\ pc[f] \in Busy /\ pc[g] \in Busy => marker[f] # marker[g]

LinkedIsChecked ==
  /\ \A f \in Fetches : pc[f] = "link" =>
        ValidatePngStructure(temp[f]) /\ temp[f] = export[marker[f]]
  /\ \A f \in Fetches : pc[f] \in {"recheck", "remove"} => final[marker[f]] = export[marker[f]]
  /\ \A n \in Names : final[n] # NoFile => ValidatePngStructure(final[n])

FetchInv == FetchTypes /\ ExportIsOwned /\ LinkedIsChecked
=============================================================================
