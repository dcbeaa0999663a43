------------------------------- MODULE MCBans -------------------------------
(* A small instance of Bans: two ranges that overlap; an item in both cases,
   which are different regexes, and a long one whose beginning is no regex. *)
EXTENDS Bans

CONSTANTS x, X, long, bad

MCListType == [l \in Lists |-> 2]
MCLower == [y \in Items |-> IF y = X THEN x ELSE y]
MCCut == [y \in Items |-> IF y = long THEN bad ELSE y]
MCRegex == [y \in Items \ {bad} |-> IF y = x THEN {x, X} ELSE {long, bad}]
MCParts == [y \in Items |-> IF y = long THEN {x, bad, long} ELSE {y}]

\* Items and ranges share no state: one half is left alone while the other
\* moves.  Nor do the item tables: two of them are in use at a time.
ItemsQuiet ==
  /\ \A a \in Admins : admin[a] = Idle
  /\ cached = {} /\ \A t \in Tables : table[t] = {}
InUse(t) ==
  table[t] # {} \/ t \in cached \/ \E a \in Admins : admin[a] # Idle /\ admin[a].table = t
FewTables == Cardinality({t \in Tables : InUse(t)}) <= 2
RangesQuiet ==
  /\ \A r \in Rows : copies[r] = 0
  /\ \A p \in Syncs, l \in Lists : task[p][l] = "none"
  /\ lists = [l \in Lists |-> "new"]
Focus == ItemsQuiet \/ (RangesQuiet /\ FewTables)
=============================================================================
