---------------------------- MODULE StructCycles ----------------------------
(***************************************************************************)
(* The search of src/src/validation.cpp for a struct that contains itself  *)
(* by value (visitStructByValue, validateStructCycles).                    *)
(*                                                                         *)
(* structs   the declared structs: the fields of each, in order            *)
(* todo      structs from which the search has not been started; an        *)
(*           unordered_map, so any of them may be next                     *)
(* calls     the calls of visitStructByValue, the innermost last: the      *)
(*           struct of each and the field that its loop looks at next      *)
(* visiting, visited   the sets that all starts share                      *)
(* verdict   "none" before the search, "searching", "recursive" (require   *)
(*           has thrown) or "accepted"                                     *)
(***************************************************************************)
EXTENDS Naturals, Sequences

CONSTANT Types   \* names of types, of structs or not

Fields == [type : Types, pointers : Nat]

VARIABLES structs, todo, calls, visiting, visited, verdict

search == <<structs, todo, calls, visiting, visited, verdict>>

SearchInit ==
  /\ \E declared \in SUBSET Types : structs \in [declared -> Seq(Fields)]
  /\ todo = DOMAIN structs
  /\ calls = <<>>
  /\ visiting = {}
  /\ visited = {}
  /\ verdict = "searching"

-----------------------------------------------------------------------------
Searching == verdict = "searching"
Innermost == calls[Len(calls)]

\* What a loop over the fields goes on with when the call for one returns.
NextField == [calls EXCEPT ![Len(calls)].field = @ + 1]

\* The field of the innermost loop.
Field == structs[Innermost.struct][Innermost.field]
HasField == calls # <<>> /\ Innermost.field <= Len(structs[Innermost.struct])

\* visitStructByValue(name) up to its loop, called by the last of callers.
Visit(name, callers) ==
  \/ /\ name \in visited \/ name \notin DOMAIN structs
     /\ calls' = callers
     /\ UNCHANGED <<visiting, verdict>>
  \/ /\ name \in DOMAIN structs \ visited
     /\ name \in visiting
     /\ verdict' = "recursive"
     /\ calls' = callers
     /\ UNCHANGED visiting
  \/ /\ name \in DOMAIN structs \ visited
     /\ name \notin visiting
     /\ visiting' = visiting \cup {name}
     /\ calls' = Append(callers, [struct |-> name, field |-> 1])
     /\ UNCHANGED verdict

StartSearch ==
  /\ Searching
  /\ calls = <<>>
  /\ \E name \in todo :
        /\ todo' = todo \ {name}
        /\ Visit(name, <<>>)
  /\ UNCHANGED <<structs, visited>>

\* Slip: a pointer to a struct counts as the struct.
VisitPointee ==
  /\ Searching
  /\ HasField
  /\ Visit(Field.type, NextField)
  /\ UNCHANGED <<structs, todo, visited>>

VisitField ==
  /\ Searching
  /\ HasField
  /\ Field.pointers = 0
  /\ Visit(Field.type, NextField)
  /\ UNCHANGED <<structs, todo, visited>>

SkipPointer ==
  /\ Searching
  /\ HasField
  /\ Field.pointers # 0
  /\ calls' = NextField
  /\ UNCHANGED <<structs, todo, visiting, visited, verdict>>

LeaveStruct ==
  /\ Searching
  /\ calls # <<>>
  /\ ~HasField
  /\ visiting' = visiting \ {Innermost.struct}
  /\ visited' = visited \cup {Innermost.struct}
  /\ calls' = SubSeq(calls, 1, Len(calls) - 1)
  /\ UNCHANGED <<structs, todo, verdict>>

EndSearch ==
  /\ Searching
  /\ calls = <<>>
  /\ todo = {}
  /\ verdict' = "accepted"
  /\ UNCHANGED <<structs, todo, calls, visiting, visited>>

Search == StartSearch \/ VisitField \/ SkipPointer \/ LeaveStruct \/ EndSearch

SearchSpec == SearchInit /\ [][Search]_search

-----------------------------------------------------------------------------
\* The structs that a struct contains by value.
Parts(struct) ==
  {name \in DOMAIN structs :
     \E k \in DOMAIN structs[struct] :
        structs[struct][k].type = name /\ structs[struct][k].pointers = 0}

\* Among some structs each contains another, or itself: one has no finite size.
Endless(some) ==
  /\ some # {}
  /\ \A struct \in some : Parts(struct) \cap some # {}

Recursive == \E some \in SUBSET DOMAIN structs : Endless(some)

(***************************************************************************)
(* Whatever the order of the starts, and although they share visiting and  *)
(* visited, the search refuses exactly the programs with structs that      *)
(* contain each other endlessly (the generator would recurse forever on    *)
(* them, and a refusal of any other would reject a legal program).         *)
(***************************************************************************)
RejectsRecursion ==
  /\ verdict = "accepted" => ~Recursive
  /\ verdict = "recursive" => Recursive
=============================================================================
