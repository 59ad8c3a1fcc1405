---------------------------- MODULE Instruments ----------------------------
(***************************************************************************)
(* Display metadata: instruments.py orders the symbols of the pickers by   *)
(* asset class and then by name.  Names are abstracted to numbers that     *)
(* sort the same way; an unknown symbol is its own name.                   *)
(***************************************************************************)
EXTENDS Naturals, Sequences, FiniteSets, SequencesExt

CONSTANTS
  Known,       \* the keys of INSTRUMENTS
  ClassOf,     \* [Known -> asset classes]
  NameOf,      \* [known and unknown symbols -> Nat]: names in their sort order
  ClassOrder,  \* ASSET_CLASS_ORDER, the last of which is Other
  Preset       \* DEFAULT_COMPARE_SYMBOLS

ASSUME InstrumentsAssumption ==
  /\ ClassOrder \in Seq({ClassOrder[i] : i \in DOMAIN ClassOrder}) \ {<<>>}
  /\ Preset \in Seq({Preset[i] : i \in DOMAIN Preset})
  /\ \A s \in Known : \E i \in 1..Len(ClassOrder) : ClassOf[s] = ClassOrder[i]
  /\ \A i, k \in 1..Len(ClassOrder) : ClassOrder[i] = ClassOrder[k] => i = k

Other == ClassOrder[Len(ClassOrder)]

AssetClass(s) == IF s \in Known THEN ClassOf[s] ELSE Other

\* group_by_asset_class: the groups in the order of their classes.  The mistake: an
\* order without the class that unknown symbols fall into.
BugGroups(symbols) ==
  [i \in 1..(Len(ClassOrder) - 1) |-> {s \in symbols : AssetClass(s) = ClassOrder[i]}]
Groups(symbols) ==
  [i \in 1..Len(ClassOrder) |-> {s \in symbols : AssetClass(s) = ClassOrder[i]}]

\* ordered_symbols: one group after the other, sorted by name inside.
OrderedSymbols(symbols) ==
  LET sorted(group) == CHOOSE list \in SetToSeqs(group) :
                         \A i, k \in 1..Len(list) : i < k => NameOf[list[i]] <= NameOf[list[k]]
  IN  FoldLeft(LAMBDA list, group : list \o sorted(group), <<>>, Groups(symbols))

\* default_compare_selection: the preset pair, or else the first two.
DefaultSelection(list, minCompare) ==
  LET listed == {list[i] : i \in 1..Len(list)}
      preset == FoldLeft(LAMBDA some, s : IF s \in listed THEN Append(some, s) ELSE some, <<>>, Preset)
  IN  IF Len(preset) = minCompare THEN preset
      ELSE SubSeq(list, 1, IF Len(list) < minCompare THEN Len(list) ELSE minCompare)
=============================================================================
