------------------------- MODULE MCBookmarkConverge -------------------------
(* BookmarkSync where the syncs of different devices overlap only so often. *)
(* Two devices whose syncs overlap for ever may undo each other's merges    *)
(* for ever: neither finds its own upload when it reads back.               *)
EXTENDS BookmarkSync

CONSTANT MaxOverlaps \* bound: commands started while another device runs one

VARIABLE overlaps

mcvars == <<vars, overlaps>>

Running == {d \in Device : pc[d] # "idle"}

StartAlone(d) == Running = {} /\ Start(d, "sync") /\ UNCHANGED overlaps

StartBeside(d) ==
  /\ Running # {}
  /\ overlaps < MaxOverlaps
  /\ overlaps' = overlaps + 1
  /\ Start(d, "sync")

MCInit == Init /\ overlaps = 0

MCNext ==
  \E d \in Device :
    \/ UseBrowser(d) /\ UNCHANGED overlaps
    \/ StartAlone(d)
    \/ StartBeside(d)
    \/ DeviceStep(d) /\ UNCHANGED overlaps

(* A started command runs on.  The desktop client starts a sync every 30    *)
(* seconds (main.ts:721): again and again while no other device runs one.   *)
MCSpec ==
  /\ MCInit
  /\ [][MCNext]_mcvars
  /\ \A d \in Device : /\ WF_mcvars(DeviceStep(d) /\ UNCHANGED overlaps)
                       /\ SF_mcvars(StartAlone(d))
=============================================================================
