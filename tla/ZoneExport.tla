------------------------------- MODULE ZoneExport -------------------------------
(* export-zones (apps/cli/src/zone_export.rs): every layout of a client tree, with
   the models and collision it places, becomes a pair of files named for the zone.
   Operators only.

   A tree is a function from paths to contents, a path a key (Absent when it is not
   a numeric one) and a spelling.  A zone name is a sequence of tokens: a stem and
   what is appended to it. *)
EXTENDS Integers, Sequences, FiniteSets, FiniteSetsExt, SequencesExt, Functions

CONSTANTS
  MaxDepth, Paired, Identity, Q, Align, MaxNesting, MaxVertices, MaxTriangles, MaxCells,
  Bias, Range1, Top, Leaf, MaxStart, Capacity, MaxTrees,
  Refused, Absent,
  SafeStem,   \* stem -> stem: safe_zone_name's characters; "" when nothing is left
  StemRank    \* stem -> number: equal for stems that differ in case alone

Floor == INSTANCE ZoneFloor

\* inventory: one file for each key, in whatever spelling.
Inventory(tree) ==
  LET of(key) == {path \in DOMAIN tree : path.key = key}
      keys == {path.key : path \in DOMAIN tree} \ {Absent}
  IN IF \E key \in keys : Cardinality(of(key)) > 1 THEN Refused
     ELSE [key \in keys |-> tree[CHOOSE path \in of(key) : TRUE]]

IsLayout(file) == "graph" \in DOMAIN file
Lower(name) == [i \in DOMAIN name |-> IF i = 1 THEN StemRank[name[1]] ELSE name[i]]

\* By the name without case, then by key.
LayoutOrder(assets, keys) ==
  LET before(a, b) ==
        LET x == StemRank[assets[a].name[1]] y == StemRank[assets[b].name[1]]
            m == Len(assets[a].name) n == Len(assets[b].name)
        IN \/ x < y
           \/ x = y /\ m < n
           \/ x = y /\ m = n /\ a < b
  IN SetToSortSeq(keys, before)

\* The resources that the placements name, each decoded; Refused if one fails.
Decoded(assets, layout) ==
  LET models == {layout.objects[o].model : o \in DOMAIN layout.objects} \ {Absent}
      phbs == {layout.objects[o].phb : o \in DOMAIN layout.objects} \ {Absent}
  IN IF \/ ~(models \cup phbs \subseteq DOMAIN assets)
        \/ \E key \in models : \/ "cells" \notin DOMAIN assets[key]
                               \/ Floor!Mesh!ParseModel(assets[key]) = Refused
        \/ \E key \in phbs : \/ "tbcs" \notin DOMAIN assets[key]
                             \/ Floor!Hull!ParsePhb(assets[key]) = Refused
     THEN Refused ELSE [key \in phbs |-> Floor!Hull!ParsePhb(assets[key])]

Sources(key, layout) ==
  ({key} \cup {layout.objects[o].model : o \in DOMAIN layout.objects}
         \cup {layout.objects[o].phb : o \in DOMAIN layout.objects}) \ {Absent}

Product(assets, key) ==
  LET Make(layout, geometry) ==
        IF geometry = Refused THEN Refused
        ELSE [key |-> key, zone |-> assets[key].name, sources |-> Sources(key, layout), geometry |-> geometry]
      With(layout, phbs) == IF phbs = Refused THEN Refused ELSE Make(layout, Floor!Flatten(layout, phbs))
      Of(layout) == IF layout = Refused THEN Refused ELSE With(layout, Decoded(assets, layout))
  IN Of(Floor!Scene!ParseLayout(assets[key]))

\* safe_zone_name.
Base(name, key) ==
  IF SafeStem[name[1]] = "" /\ Len(name) = 1 THEN <<"zone", key>> ELSE <<SafeStem[name[1]]>> \o Tail(name)

\* allocate_name: longer and longer until no file has it.
RECURSIVE Allocate(_, _, _, _)
Allocate(name, key, collision, taken) ==
  IF Lower(name) \notin {Lower(other) : other \in taken} THEN name
  ELSE Allocate(name \o <<key, collision>>, key, collision + 1, taken)

\* Faulty variant: a name that is still taken is used as it is.
NamesBySuffix(products) ==
  LET base(i) == Base(products[i].zone, products[i].key)
      shared(i) == \E j \in DOMAIN products \ {i} : Lower(base(j)) = Lower(base(i))
  IN [i \in DOMAIN products |-> IF shared(i) THEN Append(base(i), products[i].key) ELSE base(i)]

\* Shared names take their keys first; the others take what is left.
Names(products) ==
  LET base(i) == Base(products[i].zone, products[i].key)
      shared(i) == \E j \in DOMAIN products \ {i} : Lower(base(j)) = Lower(base(i))
      order == SelectSeq([i \in DOMAIN products |-> i], shared)
               \o SelectSeq([i \in DOMAIN products |-> i], LAMBDA i : ~shared(i))
      Give(given, i) ==
        LET first == IF shared(i) THEN Append(base(i), products[i].key) ELSE base(i)
        IN given @@ (i :> Allocate(first, products[i].key, 1, Range(given)))
  IN FoldLeft(Give, <<>>, order)

\* Everything is decoded before the first file is written.
Export(tree, selected) ==
  LET Name(products) ==
        IF products = <<>> \/ \E i \in DOMAIN products : products[i] = Refused THEN Refused
        ELSE [i \in DOMAIN products |-> [name |-> Names(products)[i], of |-> products[i]]]
      Make(assets, order) == Name([i \in DOMAIN order |-> Product(assets, order[i])])
      In(assets) ==
        IF assets = Refused THEN Refused
        ELSE Make(assets, LayoutOrder(assets, {key \in DOMAIN assets : /\ IsLayout(assets[key])
                                                                      /\ selected \in {Absent, key}}))
  IN In(Inventory(tree))
=============================================================================
