---------------------------- MODULE SymbolResolve ----------------------------
(***************************************************************************)
(* Finding the application's internals at start (core/resolve.c,               *)
(* resolve_rtti.c, resolve_sig.c), and the gate before the mods (common.c).       *)
(*                                                                         *)
(* The passes, in their order: class names, the flavours of type_info, the         *)
(* type_info of each class, its vtable (or the one that serves a base), functions    *)
(* in vtable slots, functions by signature and by their place in a caller, globals     *)
(* and callees read out of a function.  Each takes what it looks for only when the      *)
(* image leaves one candidate; one symbol missing and no mod runs.                 *)
(*                                                                         *)
(* An image is what the passes can find in it: places, and what stands there.       *)
(* Addresses are names.  Left out: how a name or a window is matched, instructions   *)
(* decoded, an image that is relocated, the log of what is missing.               *)
(***************************************************************************)
EXTENDS Integers, Sequences, FiniteSets, SequencesExt

CONSTANTS RsImages,
          RsClasses, RsSlots, RsFns, RsData, RsCalls,   \* k_ep122_vt .. k_ep122_call
          RsOwner,          \* whose an address really is
          RsOccurrences,    \* NAME_OCCURRENCES
          RsHits,           \* SIG_HITS_MAX
          RsSample          \* the fewest records a flavour is judged by

ASSUME RsAssumption == {RsOccurrences, RsHits, RsSample} \subseteq Nat

VARIABLES rsImage,
          rsPass,       \* the pass that comes next, and its entry
          rsNames,      \* g_vtw: the occurrences kept
          rsInfo,       \* g_vtw: each class's type_info and where its vtable is wanted
          rsSym,        \* g_ep122_sym
          rsMods        \* whether mods_install_all ran

rsVars == <<rsImage, rsPass, rsNames, rsInfo, rsSym, rsMods>>

None == "none"
Symbols == {RsClasses[i].sym : i \in DOMAIN RsClasses} \cup {RsSlots[i].sym : i \in DOMAIN RsSlots}
           \cup {RsFns[i].sym : i \in DOMAIN RsFns} \cup {RsData[i].sym : i \in DOMAIN RsData}
           \cup {RsCalls[i].sym : i \in DOMAIN RsCalls}
NoInfo == [ti |-> None, top |-> 0, vbase |-> FALSE]

RsInit ==
  /\ rsImage \in RsImages /\ rsPass = <<"names", 1>>
  /\ rsNames = [c \in DOMAIN RsClasses |-> <<>>] /\ rsInfo = [c \in DOMAIN RsClasses |-> NoInfo]
  /\ rsSym = [s \in Symbols |-> None] /\ rsMods = "not asked"

Pass(p) == rsPass[1] = p
Then(p) == rsPass' = <<p, 1>>

-----------------------------------------------------------------------------
(* names_pass, rtti_bootstrap.                                              *)

FirstFew(places) == SubSeq(places, 1, IF Len(places) < RsOccurrences THEN Len(places) ELSE RsOccurrences)

\* ep122_image_is_deck: without one class name it is some other process.
RsNames ==
  /\ Pass("names")
  /\ rsNames' = [c \in DOMAIN RsClasses |-> FirstFew(rsImage.names[c])]
  /\ Then(IF \A c \in DOMAIN RsClasses : rsImage.names[c] = <<>> THEN "end" ELSE "flavours")
  /\ UNCHANGED <<rsImage, rsInfo, rsSym, rsMods>>

\* The type_infos reached from the first one a class name leads to.
RECURSIVE ReachedFrom(_)
ReachedFrom(some) ==
  LET more == some \cup UNION {{rsImage.bases[t][k].to : k \in DOMAIN rsImage.bases[t]} : t \in some}
  IN  IF more = some THEN some ELSE ReachedFrom(more)

Leads(c) == IF rsNames[c] = <<>> THEN {} ELSE rsNames[c][1] \cap rsImage.real
Bootstrapped ==
  LET leads == {c \in DOMAIN RsClasses : Leads(c) # {}}
      first == CHOOSE c \in leads : \A d \in leads : c <= d
  IN  leads # {} /\ \A f \in {"si", "vmi"} :
        /\ \E t \in ReachedFrom({CHOOSE i \in Leads(first) : TRUE}) : rsImage.flavour[t] = f
        /\ rsImage.records[f] >= RsSample

RsFlavours ==
  /\ Pass("flavours") /\ Then(IF Bootstrapped THEN "infos" ELSE "end")
  /\ UNCHANGED <<rsImage, rsNames, rsInfo, rsSym, rsMods>>

-----------------------------------------------------------------------------
(* Classes.  A virtual base's place in the vtable says how far away it is; one     *)
(* behind a base that is itself away is not looked for.                          *)

NotABase == [ok |-> FALSE, off |-> 0, virt |-> FALSE]

\* rtti_base_offset
RECURSIVE BaseOf(_, _, _, _)
BaseOf(ti, base, depth, at) ==
  LET edges == rsImage.bases[ti]
      Try(e) ==
        IF e.virt THEN IF at = 0 /\ e.to = base THEN [ok |-> TRUE, off |-> e.off, virt |-> TRUE] ELSE NotABase
        ELSE IF e.to = base THEN [ok |-> TRUE, off |-> e.off, virt |-> FALSE]
        ELSE LET sub == BaseOf(e.to, base, depth + 1, at + e.off)
             IN  IF sub.ok /\ ~sub.virt THEN [sub EXCEPT !.off = @ + e.off] ELSE sub
      good == {k \in DOMAIN edges : Try(edges[k]).ok}
  IN  IF depth > 8 \/ ti \notin rsImage.real \/ good = {} THEN NotABase
      ELSE Try(edges[CHOOSE k \in good : \A j \in good : k <= j])

\* ti_collect, and the refusal of a name that leads to two.
InfoIsClear(found) == Cardinality(found) = 1

InfoOf(c) ==
  LET found == UNION {rsNames[c][k] : k \in DOMAIN rsNames[c]} \cap rsImage.real
      ti == CHOOSE t \in found : \A u \in found : rsImage.order[u] <= rsImage.order[t]
      base == RsClasses[c].base
      to == BaseOf(ti, base, 0, 0)
  IN  IF ~InfoIsClear(found) THEN NoInfo
      ELSE IF base = None THEN [ti |-> ti, top |-> 0, vbase |-> FALSE]
      ELSE IF ~to.ok THEN NoInfo
      ELSE [ti |-> ti, top |-> IF to.virt THEN 0 ELSE -to.off, vbase |-> to.virt]

RsInfos ==
  /\ Pass("infos") /\ Then("vtables")
  /\ rsInfo' = [c \in DOMAIN RsClasses |-> InfoOf(c)]
  /\ UNCHANGED <<rsImage, rsNames, rsSym, rsMods>>

\* vt_collect, vt_virtual_base: what carries the type_info at that offset to top, and
\* holds code in its first slot.
VtablesAt(ti, top) == {v \in rsImage.vtables : v.ti = ti /\ v.top = top /\ v.code}

VtableOf(c) ==
  LET w == rsInfo[c]
      first == VtablesAt(w.ti, w.top)
      away == VtablesAt(w.ti, -rsImage.vbase)
      The(vs) == (CHOOSE v \in vs : TRUE).is
  IN  IF w.ti = None \/ Cardinality(first) # 1 THEN None
      ELSE IF ~w.vbase THEN The(first)
      ELSE IF Cardinality(away) = 1 THEN The(away) ELSE None

RsVtables ==
  /\ Pass("vtables") /\ Then("slots")
  /\ rsSym' = [s \in Symbols |->
       IF \E c \in DOMAIN RsClasses : RsClasses[c].sym = s
       THEN VtableOf(CHOOSE c \in DOMAIN RsClasses : RsClasses[c].sym = s) ELSE rsSym[s]]
  /\ UNCHANGED <<rsImage, rsNames, rsInfo, rsMods>>

-----------------------------------------------------------------------------
(* The entries of the four tables of functions and data, in their order.          *)

Entry(p, table, next) ==
  /\ Pass(p)
  /\ rsPass' = IF rsPass[2] < Len(table) THEN <<p, rsPass[2] + 1>> ELSE <<next, 1>>
  /\ UNCHANGED <<rsImage, rsNames, rsInfo, rsMods>>

LooksUp(place, by) == IF place \in DOMAIN by THEN by[place] ELSE None

RsSlot ==
  LET e == RsSlots[rsPass[2]] IN
  /\ Entry("slots", RsSlots, "functions")
  /\ LET fn == LooksUp(rsSym[e.vt], rsImage.slots)
     IN  rsSym' = IF fn # None THEN [rsSym EXCEPT ![e.sym] = fn] ELSE rsSym

\* resolve_fn.  What the enclosing function calls, once each, in the order it calls.
OnceEach(calls) ==
  FoldLeft(LAMBDA seen, a : IF a \in Range(seen) THEN seen ELSE Append(seen, a), <<>>, calls)
AnyCount(e, ordered) == e.nth <= Len(ordered)   \* seeded fault: how many there should be is not asked
CountIsKnown(e, ordered) == Len(ordered) = e.total

FunctionOf(e, hits) ==
  LET calls == LooksUp(rsSym[e.scope], rsImage.calls)
      ordered == OnceEach(SelectSeq(calls, LAMBDA a : a \in Range(hits)))
  IN  IF Len(hits) > RsHits THEN None
      ELSE IF e.scope = None THEN IF Len(hits) = 1 THEN hits[1] ELSE None
      ELSE IF rsSym[e.scope] = None \/ calls = None THEN None
      ELSE IF CountIsKnown(e, ordered) /\ e.nth <= Len(ordered) THEN ordered[e.nth] ELSE None

\* An alternative never takes the place of one that was found.
Alternative(s, a) ==
  rsSym' = IF a # None /\ rsSym[s] = None THEN [rsSym EXCEPT ![s] = a] ELSE rsSym

RsFunction ==
  LET e == RsFns[rsPass[2]] IN
  /\ Entry("functions", RsFns, "data")
  /\ Alternative(e.sym, FunctionOf(e, rsImage.windows[rsPass[2]]))

\* adrp_pair, bl_target: what a known function computes, or calls, at an instruction.
RsDatum ==
  LET e == RsData[rsPass[2]] IN
  /\ Entry("data", RsData, "calls")
  /\ Alternative(e.sym, LooksUp(<<rsSym[e.src], e.insn>>, rsImage.reads))
RsCall ==
  LET e == RsCalls[rsPass[2]] IN
  /\ Entry("calls", RsCalls, "count")
  /\ Alternative(e.sym, LooksUp(<<rsSym[e.src], e.insn>>, rsImage.reads))

\* The constructor: every symbol, or no mod.
RsCount ==
  /\ Pass("count") /\ Then("end")
  /\ rsMods' = IF \A s \in Symbols : rsSym[s] # None THEN "installed" ELSE "inactive"
  /\ UNCHANGED <<rsImage, rsNames, rsInfo, rsSym>>

RsNext == RsNames \/ RsFlavours \/ RsInfos \/ RsVtables \/ RsSlot \/ RsFunction \/ RsDatum
          \/ RsCall \/ RsCount

RsSpec == RsInit /\ [][RsNext]_rsVars

-----------------------------------------------------------------------------
(* What the image says of a symbol, whatever the resolver makes of it.            *)

OwnersOf(addresses) == {RsOwner[a] : a \in addresses}
RowsOf(s, table) == {e \in Range(table) : e.sym = s}
Found(by, place) == IF LooksUp(place, by) = None THEN {} ELSE {LooksUp(place, by)}
PlacesOf(s) == {a \in DOMAIN RsOwner : RsOwner[a] = s}

\* The enclosing function calls another of the kind and not each of the siblings, or
\* calls them in another order.
SiblingsAreOthers(scope) ==
  \E f \in PlacesOf(scope) \cap DOMAIN rsImage.calls :
    LET siblings == {k \in DOMAIN RsFns : RsFns[k].scope = scope}
        alike == UNION {Range(rsImage.windows[k]) : k \in siblings}
        called == OnceEach(SelectSeq(rsImage.calls[f], LAMBDA a : a \in alike))
        At(k) == {n \in DOMAIN called : RsOwner[called[n]] = RsFns[k].sym}
    IN  \/ /\ \E k \in siblings : At(k) = {}
           /\ ~(OwnersOf(Range(called)) \subseteq {RsFns[k].sym : k \in siblings})
        \/ \E j, k \in siblings : /\ RsFns[j].nth < RsFns[k].nth
                                 /\ \E n \in At(k), m \in At(j) : n < m

\* Another stands where the symbol is looked for: in its vtable's slot, as the only
\* window like its own, among its siblings, or where a function computes its address;
\* or none of the class's type_infos or vtables is its own.
StoodInFor(s) ==
  \/ \E c \in DOMAIN RsClasses :
       /\ RsClasses[c].sym = s
       /\ s \notin OwnersOf({v.is : v \in rsImage.vtables})
          \/ s \notin OwnersOf(UNION Range(rsImage.names[c]))
  \/ \E e \in RowsOf(s, RsSlots) : \E vt \in PlacesOf(e.vt) :
       ~(OwnersOf(Found(rsImage.slots, vt)) \subseteq {s})
  \/ \E k \in DOMAIN RsFns : /\ RsFns[k].sym = s /\ RsFns[k].scope = None
                            /\ s \notin OwnersOf(Range(rsImage.windows[k]))
                            /\ rsImage.windows[k] # <<>>
  \/ \E e \in RowsOf(s, RsFns) : e.scope # None /\ SiblingsAreOthers(e.scope)
  \/ \E e \in RowsOf(s, RsData) \cup RowsOf(s, RsCalls) : \E f \in PlacesOf(e.src) :
       ~(OwnersOf(Found(rsImage.reads, <<f, e.insn>>)) \subseteq {s})

\* Or so it is for a symbol it is found by.
RECURSIVE Displaced(_)
Displaced(s) ==
  \/ StoodInFor(s)
  \/ \E t \in {e.vt : e \in RowsOf(s, RsSlots)} \cup {e.scope : e \in RowsOf(s, RsFns)}
            \cup {e.src : e \in RowsOf(s, RsData) \cup RowsOf(s, RsCalls)} : t # None /\ Displaced(t)

\* Whatever was added to the image, taken from it or doubled, an address the resolver
\* gives is the symbol's own ("a firmware that adds or drops one changes the count, and
\* we would rather resolve nothing than the wrong sibling", resolve.c:928-933), unless
\* another has come to stand in the very place it is looked for, which no count can
\* tell; and what only stands beside the symbols -- a longer name that ends alike,
\* construction vtables, calls between the siblings -- costs none of them.
RightOrRefused ==
  /\ \A s \in Symbols : rsSym[s] # None => RsOwner[rsSym[s]] = s \/ Displaced(s)
  /\ Pass("end") /\ rsImage.harmless => rsMods = "installed"
=============================================================================
