----------------------------- MODULE BootSwitch -----------------------------
(***************************************************************************)
(* What the BOOT promotion promises to whoever powers the handheld on: the *)
(* card always selects one exact boot script, the new one only once all    *)
(* its versioned files are on the card, and those files, once published,   *)
(* stay.  Nothing else about journals, stages or failures is visible here. *)
(***************************************************************************)
VARIABLES active,     \* the script boot.ini is: "fallback" or "target"
          candidate   \* the versioned files of the target are complete

Init == active = "fallback" /\ candidate = FALSE

Publish == ~candidate /\ candidate' = TRUE /\ UNCHANGED active
Select  == candidate /\ active = "fallback" /\ active' = "target"
           /\ UNCHANGED candidate
Restore == active = "target" /\ active' = "fallback" /\ UNCHANGED candidate

Next == Publish \/ Select \/ Restore

Spec == Init /\ [][Next]_<<active, candidate>>
=============================================================================
