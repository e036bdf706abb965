----------------------------- MODULE HeaderTable -----------------------------
(***************************************************************************)
(* The header-name tables of the HTTP parsers (p2putils/HttpTokens.c): a    *)
(* perfect hash built once from the caller's names and the reserved ones,   *)
(* and the lookup every parsed header goes through.                         *)
(*                                                                          *)
(* A name is [folded, raw]: two names with the same folded bytes are the    *)
(* same header.  A name that folds to Unfoldable has a byte outside of the  *)
(* token characters.  hash[f] = <<high, low>> is the FNV-1a hash of the     *)
(* folded bytes f, cut into the half that selects a group and the half that *)
(* selects a slot; it is a parameter, so that every collision is met.  So   *)
(* is memory: malloc fails on a request for more elements than that.        *)
(***************************************************************************)
EXTENDS Naturals, Integers, Sequences, FiniteSets, FiniteSetsExt, SequencesExt

CONSTANTS
  httpHeaderTableMaxSize,   \* the largest table
  hhReservedBase,           \* ids below it are the caller's
  Reserved,                 \* the generated reserved names: a sequence of [name, id]
  Unfoldable                \* what a byte folds to that no token may hold

(* hashHeaderName and lookupToken accept a name: it is not empty and has    *)
(* only token characters.                                                   *)
isToken(name) == name.folded \notin {"", Unfoldable}

high(hash, key) == hash[key.name.folded][1]
low(hash, key) == hash[key.name.folded][2]

NoTable == [built |-> FALSE, tableSize |-> 0, groupCount |-> 0, slots |-> <<>>, displacement |-> <<>>]

(* The slots the keys of one group take under displacement d. *)
positions(hash, keys, members, tableSize, d) == {(low(hash, keys[k]) + d) % tableSize : k \in members}

(* fits without a look at the other keys of the group. *)
fitsAlone(hash, keys, members, tableSize, slots, d) ==
  \A pos \in positions(hash, keys, members, tableSize, d) : slots[pos] = 0

(* Every key of the group lands on a free slot, no two on the same one. *)
fits(hash, keys, members, tableSize, slots, d) ==
  /\ \A pos \in positions(hash, keys, members, tableSize, d) : slots[pos] = 0
  /\ Cardinality(positions(hash, keys, members, tableSize, d)) = Cardinality(members)

(* One group is placed at the first displacement that fits. *)
placeGroup(hash, keys, tableSize, table, g, members) ==
  LET ds == {d \in 0..(tableSize - 1) : fits(hash, keys, members, tableSize, table.slots, d)}
      d  == Min(ds)
  IN  IF ~table.built \/ ds = {} THEN [table EXCEPT !.built = FALSE]
      ELSE [table EXCEPT !.displacement[g] = d,
             !.slots = [pos \in DOMAIN @ |->
                          IF \E k \in members : (low(hash, keys[k]) + d) % tableSize = pos
                            THEN CHOOSE k \in members : (low(hash, keys[k]) + d) % tableSize = pos
                            ELSE @[pos]]]

(* placeHeaderKeys: the groups from the largest to the smallest, the first  *)
(* of equals first.                                                         *)
placeHeaderKeys(hash, keys, tableSize, groupCount) ==
  LET members(g) == {k \in DOMAIN keys : high(hash, keys[k]) % groupCount = g}
      size(g)    == Cardinality(members(g))
      before(g, h) == size(g) > size(h) \/ (size(g) = size(h) /\ g < h)
      order      == SetToSortSeq({g \in 0..(groupCount - 1) : size(g) > 0}, before)
      empty      == [built |-> TRUE, tableSize |-> tableSize, groupCount |-> groupCount,
                     slots |-> [pos \in 0..(tableSize - 1) |-> 0], displacement |-> [g \in 0..(groupCount - 1) |-> 0]]
      place(table, g) == placeGroup(hash, keys, tableSize, table, g, members(g))
  IN  FoldLeft(place, empty, order)

(* The first group count from g down to a quarter of the size that places. *)
RECURSIVE tryGroups(_, _, _, _)
tryGroups(hash, keys, tableSize, g) ==
  LET table == placeHeaderKeys(hash, keys, tableSize, g)
      lowerBound == Max({tableSize \div 4, 1})
  IN  IF g < lowerBound THEN NoTable
      ELSE IF table.built THEN table
      ELSE tryGroups(hash, keys, tableSize, g \div 2)

(* buildHeaderTable: the first size, from the smallest power of two that    *)
(* holds the keys, packed into one block; the first allocation that fails   *)
(* ends the search.                                                         *)
RECURSIVE buildHeaderTable(_, _, _, _)
buildHeaderTable(hash, memory, keys, tableSize) ==
  LET table == tryGroups(hash, keys, tableSize, tableSize)
      block == tableSize + table.groupCount
  IN  IF tableSize > httpHeaderTableMaxSize THEN NoTable
      ELSE IF tableSize < Len(keys) THEN buildHeaderTable(hash, memory, keys, 2 * tableSize)
      ELSE IF tableSize > memory THEN NoTable
      ELSE IF ~table.built THEN buildHeaderTable(hash, memory, keys, 2 * tableSize)
      ELSE IF block > memory THEN NoTable
      ELSE table

(* httpHeaderTablePrepare: invalid ids and names are refused, and so are    *)
(* two keys of equal hash.                                                  *)
httpHeaderTablePrepare(hash, memory, entries) ==
  LET keys  == entries \o Reserved
      valid == /\ Len(entries) <= httpHeaderTableMaxSize
               /\ Len(keys) <= memory
               /\ \A i \in DOMAIN entries : entries[i].id \in 1..(hhReservedBase - 1) /\ isToken(entries[i].name)
               /\ \A i, j \in DOMAIN keys : i # j => hash[keys[i].name.folded] # hash[keys[j].name.folded]
  IN  IF valid THEN [table |-> buildHeaderTable(hash, memory, keys, 1), keys |-> keys] ELSE [table |-> NoTable, keys |-> keys]

ParserResultError == -1

(* lookupToken once the name is complete: the slot of the hash, and the     *)
(* folded bytes compared, for a hash alone does not identify a name.  What  *)
(* is no token is an error of the message.                                  *)
lookupToken(hash, prepared, name) ==
  LET t    == prepared.table
      h    == hash[name.folded]
      slot == (h[2] + t.displacement[h[1] % t.groupCount]) % t.tableSize
      key  == t.slots[slot]
  IN  IF ~isToken(name) THEN ParserResultError
      ELSE IF key # 0 /\ prepared.keys[key].name.folded = name.folded THEN prepared.keys[key].id ELSE 0
=============================================================================
