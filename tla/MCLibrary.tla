---------------------------- MODULE MCLibrary ----------------------------
(* The components around the deck's library and the server: the beat grid   *)
(* and its edits, the browser's reorder and its writing, the search for a   *)
(* server and one call to it.                                               *)
EXTENDS BeatGrid, GridEdit, MoveWrite, Reorder,
        Discovery, HttpCall

VARIABLE scene   \* the component that moves; the others stay as they start

\* What is on screen: a playlist, the same list without an order of its own, another
\* playlist beside it, the play screen.
V(l, h, p, pid, n, s) ==
  [list |-> l, root |-> "browse", header |-> h, position |-> p, pid |-> pid, rows |-> n, sort |-> s]
MCViews == {V("main", "h", TRUE, 1, 3, By(4, FALSE)), V("main", "h", FALSE, 0, 3, By(4, TRUE)),
            V("side", "g", TRUE, 2, 3, By(3, FALSE)), [V("-", "g", FALSE, 0, 0, By(0, TRUE)) EXCEPT !.root = "play"]}
\* Two playlists that share tracks; servers that fit, that lack a name, that do not fit.
MCLists == <<<<"x", "y", "z">>, <<"z", "x">>>>
D(c, m) == [rate |-> c, channels |-> TRUE, stems |-> TRUE, modelId |-> m, sepId |-> Missing,
            backend |-> "demucs", model |-> Missing, preset |-> Missing]
MCDocs == <<D(TRUE, "w1"), D(TRUE, Missing), D(FALSE, "w1")>>

Scenes == {"grid", "edit", "write", "browse", "discovery", "http"}
libraryVars == <<scene, bgVars, geVars, mvVars, brVars, diVars, hcVars>>

LibraryInit ==
  /\ scene \in Scenes
  /\ BgInit /\ GeInit /\ MvInit /\ BrInit /\ DiInit /\ HcInit
  /\ (scene # "browse" => brView.list = "main")
  /\ (scene # "discovery" => diNet = [h \in DiHosts |-> 0])
  /\ (scene # "http" => hcUp.left = 0 /\ hcAnswer = CHOOSE a \in Answers : TRUE)

LibraryNext ==
  /\ UNCHANGED scene
  /\ \/ scene = "grid" /\ BgNext /\ UNCHANGED <<geVars, mvVars, brVars, diVars, hcVars>>
     \/ scene = "edit" /\ GeNext /\ UNCHANGED <<bgVars, mvVars, brVars, diVars, hcVars>>
     \/ scene = "write" /\ MvNext /\ UNCHANGED <<bgVars, geVars, brVars, diVars, hcVars>>
     \/ scene = "browse" /\ BrNext /\ UNCHANGED <<bgVars, geVars, mvVars, diVars, hcVars>>
     \/ scene = "discovery" /\ DiNext /\ UNCHANGED <<bgVars, geVars, mvVars, brVars, hcVars>>
     \/ scene = "http" /\ HcNext /\ UNCHANGED <<bgVars, geVars, mvVars, brVars, diVars>>

LibrarySpec ==
  /\ LibraryInit /\ [][LibraryNext]_libraryVars
  /\ WF_bgVars(scene = "grid" /\ BgReplies)
  /\ WF_bgVars(scene = "grid" /\ BgTicks)
  /\ WF_bgVars(scene = "grid" /\ BgPads)
  /\ WF_bgVars(scene = "grid" /\ (BgMixLooks \/ BgMixLeaves))
  /\ SF_bgVars(scene = "grid" /\ BgSwaps("tick"))
  /\ SF_bgVars(scene = "grid" /\ BgSwaps("pad"))
  /\ WF_mvVars(scene = "write" /\ MvLibrary)

\* One scene of it, for a run of its own.
WriteSpec == LibraryInit /\ scene = "write" /\ [][LibraryNext]_libraryVars
=============================================================================
