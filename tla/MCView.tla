---------------------------- MODULE MCView ----------------------------
(* What the DJ hears and sees of the stems, the waveform's colours, and     *)
(* what all of it is found by when the deck starts.                         *)
EXTENDS StemMix, StemPanel, WaveStems, ThemeWave,
        SymbolResolve

VARIABLE scene   \* the component that moves; the others stay as they start

\* A beat missing, two alike; blocks from before the first, and past the last.
MCBeats == <<0, 2, 2, 3>>
MCPositions == {-1, 1}
\* What the job tells the row.
J(s, n, v) == [stage |-> s, percent |-> n, server |-> v]
MCJobs == {J("uploading", 50, TRUE), J("separating", 50, TRUE), J("loading", 50, FALSE), NoJob}
MCStyleOf == [t \in {"t1", "t2"} |-> IF t = "t1" THEN "3band" ELSE "blue"]

\* An image and what may be different about another: a widget with a virtual base, a
\* class with a plain one, one with none; a function of two builds, two siblings it
\* calls, a slot, a global and a callee.
MCClasses == <<[sym |-> "W", base |-> "tiC"], [sym |-> "P", base |-> "tiC"], [sym |-> "B", base |-> "none"]>>
MCSlots == <<[sym |-> "Draw", vt |-> "W"]>>
MCFns == <<[sym |-> "F", scope |-> "none", nth |-> 1, total |-> 1],
           [sym |-> "F", scope |-> "none", nth |-> 1, total |-> 1],
           [sym |-> "G1", scope |-> "F", nth |-> 1, total |-> 2],
           [sym |-> "G2", scope |-> "F", nth |-> 2, total |-> 2]>>
MCData == <<[sym |-> "D", src |-> "F", insn |-> 10], [sym |-> "D", src |-> "F", insn |-> 14]>>
MCCalls == <<[sym |-> "L", src |-> "G1", insn |-> 3]>>
MCOwner == [a \in {"tiW", "tiP", "tiB", "tiT", "vtW", "vtW0", "vtW2", "vtT", "vtP", "vtB", "draw", "f", "fOther", "x", "y", "z", "g1", "g2", "d", "l"} |->
  CASE a \in {"tiW", "vtW"} -> "W" [] a \in {"tiP", "vtP"} -> "P" [] a \in {"tiB", "vtB"} -> "B" [] a = "draw" -> "Draw"
    [] a \in {"f", "fOther"} -> "F" [] a = "g1" -> "G1" [] a = "g2" -> "G2" [] a = "d" -> "D"
    [] a = "l" -> "L" [] OTHER -> "nobody"]
V(ti, top, code, is) == [ti |-> ti, top |-> top, code |-> code, is |-> is]
E(to, virt, off) == [to |-> to, virt |-> virt, off |-> off]
MCReference == [
  names |-> <<<<{"tiW"}>>, <<{"tiP"}>>, <<{"tiB"}>>>>, real |-> {"tiW", "tiP", "tiB", "tiC", "tiM", "tiT", "tiZ"},
  order |-> [t \in {"tiW", "tiP", "tiB", "tiC", "tiM", "tiT", "tiZ"} |-> IF t = "tiT" THEN 2 ELSE 1],
  flavour |-> [t \in {"tiW", "tiP", "tiB", "tiC", "tiM", "tiT", "tiZ"} |->
                CASE t \in {"tiW", "tiB"} -> "si" [] t \in {"tiC", "tiZ"} -> "class" [] OTHER -> "vmi"],
  records |-> [f \in {"si", "vmi"} |-> 4],
  bases |-> [t \in {"tiW", "tiP", "tiB", "tiC", "tiM", "tiT", "tiZ"} |->
              CASE t = "tiW" -> <<E("tiM", FALSE, 0)>> [] t \in {"tiM", "tiT"} -> <<E("tiC", TRUE, 24)>>
                [] t = "tiP" -> <<E("tiB", FALSE, 0), E("tiC", FALSE, 16)>>
                [] t = "tiB" -> <<E("tiZ", FALSE, 0)>> [] OTHER -> <<>>],
  vtables |-> {V("tiW", 0, TRUE, "vtW0"), V("tiW", -8, TRUE, "vtW"), V("tiP", -16, TRUE, "vtP"),
               V("tiB", 0, TRUE, "vtB"), V("tiT", 0, TRUE, "vtT"), V("tiT", -8, TRUE, "vtT")},
  vbase |-> 8, slots |-> ("vtW" :> "draw"),
  windows |-> <<<<"f">>, <<>>, <<"g1", "g2">>, <<"g1", "g2">>>>,
  calls |-> ("f" :> <<"g1", "x", "g2">> @@ "fOther" :> <<"g1", "g2">>),
  reads |-> (<<"f", 10>> :> "d" @@ <<"fOther", 14>> :> "d" @@ <<"g1", 3>> :> "l"), harmless |-> TRUE]
Beside == SUBSET {V("tiW", 0, FALSE, "x"), V("tiW", -8, FALSE, "y"), V("tiP", -16, FALSE, "z")}
Harmless == {[MCReference EXCEPT !.names[1] = n, !.vtables = @ \cup v, !.calls["f"] = c] :
  n \in {<<{"tiW"}>>, <<{}, {"tiW"}>>, <<{"tiW"}, {}>>, <<{"tiW"}, {}, {}>>}, v \in Beside,
  c \in {<<"g1", "g2">>, <<"x", "g1", "g1", "y", "g2">>, <<"g1", "g2", "g1">>}}
OtherBuild == [MCReference EXCEPT !.windows[1] = <<>>, !.windows[2] = <<"fOther">>]
Changed(i) == [i EXCEPT !.harmless = FALSE]
InClasses == {Changed([MCReference EXCEPT !.names[1] = n, !.vtables = @ \cup v, !.vbase = b, !.bases["tiW"] = w,
                       !.records["si"] = r]) :
  n \in {<<{"tiW", "tiT"}>>, <<{"tiW"}, {"tiT"}>>, <<{}, {}, {"tiW"}>>, <<>>, <<{"tiW"}>>},
  v \in {{}, {V("tiW", 0, TRUE, "vtW2")}, {V("tiW", -8, TRUE, "vtW2")}}, b \in {8, 32},
  w \in {<<E("tiM", FALSE, 0)>>, <<E("tiB", FALSE, 0), E("tiM", FALSE, 8)>>, <<>>}, r \in {3, 4}}
InFunctions == {Changed([b EXCEPT !.windows[1] = f, !.windows[3] = h, !.windows[4] = h, !.calls["f"] = c,
                         !.calls["fOther"] = c, !.slots = s]) :
  b \in {MCReference, OtherBuild}, f \in {<<>>, <<"f">>, <<"f", "x">>, <<"f", "x", "y", "z">>},
  h \in {<<"g1", "g2">>, <<"g2">>, <<"g1", "g2", "x">>, <<"g1", "g2", "x", "y">>},
  c \in {<<"g1", "g2">>, <<"g2">>, <<"g2", "z">>, <<"g1", "x", "g2">>},
  s \in {"vtW" :> "draw", "vtW" :> "none"}}
\* Another in a symbol's place: a slot that moved, a lookalike alone, siblings swapped,
\* replaced and moved up, and pairs and calls of another at a row's instruction.
Replaced == {Changed([b EXCEPT !.windows[1] = f, !.windows[3] = h, !.windows[4] = h, !.calls["f"] = c,
                      !.calls["fOther"] = c, !.slots = "vtW" :> s, !.reads = r @@ @]) :
  b \in {MCReference, OtherBuild}, f \in {<<>>, <<"f">>, <<"x">>}, h \in {<<"g1", "g2">>, <<"g1", "g2", "x">>},
  c \in {<<"g1", "g2">>, <<"g2", "g1">>, <<"x", "g2">>, <<"g2", "x">>}, s \in {"draw", "x"},
  r \in {<<>>, <<"f", 10>> :> "x", <<"fOther", 10>> :> "x", <<"g1", 3>> :> "x", <<"x", 3>> :> "y"}}
OthersClass == {Changed([MCReference EXCEPT !.names[1] = <<n>>, !.vtables = (@ \ {V("tiW", -8, TRUE, "vtW")}) \cup v]) :
  n \in {{"tiW"}, {"tiT"}}, v \in {{}, {V("tiW", -8, TRUE, "vtW2")}}}
NoNames == Changed([MCReference EXCEPT !.names = <<<<>>, <<>>, <<>>>>])
MCImages == Harmless \cup {MCReference, OtherBuild, NoNames} \cup InClasses \cup InFunctions
            \cup Replaced \cup OthersClass

Scenes == {"mix", "panel", "wave", "waveform", "resolve"}
viewVars == <<scene, smVars, spVars, wsVars, twVars, rsVars>>

ViewInit ==
  /\ scene \in Scenes
  /\ SmInit /\ SpInit /\ WsInit /\ TwInit /\ RsInit
  /\ (scene # "waveform" => twTheme = Original)
  /\ (scene # "resolve" => rsImage = MCReference)

ViewNext ==
  /\ UNCHANGED scene
  /\ \/ scene = "mix" /\ SmNext /\ UNCHANGED <<spVars, wsVars, twVars, rsVars>>
     \/ scene = "panel" /\ SpNext /\ UNCHANGED <<smVars, wsVars, twVars, rsVars>>
     \/ scene = "wave" /\ WsNext /\ UNCHANGED <<smVars, spVars, twVars, rsVars>>
     \/ scene = "waveform" /\ TwNext /\ UNCHANGED <<smVars, spVars, wsVars, rsVars>>
     \/ scene = "resolve" /\ RsNext /\ UNCHANGED <<smVars, spVars, wsVars, twVars>>

ViewSpec ==
  /\ ViewInit /\ [][ViewNext]_viewVars
  /\ WF_smVars(scene = "mix" /\ SmBlockRuns)
  /\ WF_smVars(scene = "mix" /\ SmQuarter)
  /\ WF_smVars(scene = "mix" /\ SmGainSet)

\* One scene of it, for a run of its own.
MemoSpec == ViewInit /\ scene = "waveform" /\ [][ViewNext]_viewVars
=============================================================================
