---------------------------- MODULE ViewContract ----------------------------
(***************************************************************************)
(* What a PSI program may rely on when it uses bounded views: a view is a  *)
(* sequence of storage cells, a slice is a part of that sequence, copies   *)
(* and slices share the cells, an array literal has cells of its own, and  *)
(* a command whose integers, taken as numbers, do not fit the view traps,  *)
(* and no other does.  BoundedView shows that the emitted code keeps this. *)
(***************************************************************************)
EXTENDS Integers, Sequences

CONSTANTS
  View,       \* the view registers of the function
  Cell,       \* places that can hold an element
  Value,      \* elements
  NoValue,    \* what a cell holds before it is part of a literal
  Numbers,    \* the integers that operands stand for
  MaxLiteral  \* the longest array literal

VARIABLES
  views,    \* the cells of each view
  cells,    \* what each cell holds
  owned,    \* the cells handed out to array literals
  request,  \* the command that ran last, with its numbers
  result,   \* what it returned
  trapped   \* it has trapped, and the program with it

vars == <<views, cells, owned, request, result, trapped>>

Init ==
  /\ views = [v \in View |-> <<>>]
  /\ cells = [c \in Cell |-> NoValue]
  /\ owned = {}
  /\ request = <<>>
  /\ result = NoValue
  /\ trapped = FALSE

Injective(s) == \A i, j \in DOMAIN s : s[i] = s[j] => i = j

Holding(s, values) ==
  [c \in Cell |-> IF \E i \in DOMAIN s : s[i] = c
                    THEN values[CHOOSE i \in DOMAIN s : s[i] = c] ELSE cells[c]]

\* v = [values]
Literal(v, values) ==
  /\ request' = <<"literal">>
  /\ \E s \in [DOMAIN values -> Cell \ owned] :
       /\ Injective(s)
       /\ views' = [views EXCEPT ![v] = s]
       /\ cells' = Holding(s, values)
       /\ owned' = owned \cup {s[i] : i \in DOMAIN s}
  /\ result' = NoValue
  /\ UNCHANGED trapped

\* v = w
Copy(v, w) ==
  /\ request' = <<"copy">>
  /\ views' = [views EXCEPT ![v] = views[w]]
  /\ result' = NoValue
  /\ UNCHANGED <<cells, owned, trapped>>

\* result = #viewlen v
Length(v) ==
  /\ request' = <<"length">>
  /\ result' = Len(views[v])
  /\ UNCHANGED <<views, cells, owned, trapped>>

Trap ==
  /\ trapped' = TRUE
  /\ result' = NoValue
  /\ UNCHANGED <<views, cells, owned>>

PartOf(v, start, count) == 0 <= start /\ 0 <= count /\ start + count <= Len(views[v])

\* v = #viewslice w start count
Slice(v, w, start, count) ==
  /\ request' = <<"slice", w, start, count>>
  /\ \/ ~PartOf(w, start, count) /\ Trap
     \/ /\ PartOf(w, start, count)
        /\ views' = [views EXCEPT ![v] = SubSeq(views[w], start + 1, start + count)]
        /\ result' = NoValue
        /\ UNCHANGED <<cells, owned, trapped>>

IndexOf(v, i) == 0 <= i /\ i < Len(views[v])

\* result = #viewload v i
Load(v, i) ==
  /\ request' = <<"load", v, i>>
  /\ \/ ~IndexOf(v, i) /\ Trap
     \/ /\ IndexOf(v, i)
        /\ result' = cells[views[v][i + 1]]
        /\ UNCHANGED <<views, cells, owned, trapped>>

\* #viewstore v i value
Store(v, i, value) ==
  /\ request' = <<"store", v, i>>
  /\ \/ ~IndexOf(v, i) /\ Trap
     \/ /\ IndexOf(v, i)
        /\ cells' = [cells EXCEPT ![views[v][i + 1]] = value]
        /\ result' = NoValue
        /\ UNCHANGED <<views, owned, trapped>>

Next ==
  /\ ~trapped
  /\ \E v \in View :
       \/ \E n \in 0 .. MaxLiteral : \E values \in [1 .. n -> Value] : Literal(v, values)
       \/ \E w \in View : Copy(v, w)
       \/ Length(v)
       \/ \E w \in View, start, count \in Numbers : Slice(v, w, start, count)
       \/ \E i \in Numbers : Load(v, i)
       \/ \E i \in Numbers, value \in Value : Store(v, i, value)

Spec == Init /\ [][Next]_vars
=============================================================================
