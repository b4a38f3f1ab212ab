-------------------------- MODULE MCTypeAssignment --------------------------
(***************************************************************************)
(* Faces and their types for checking TypeAssignment with TLC.             *)
(***************************************************************************)
EXTENDS TypeAssignment

Job(new, list, before) == [new |-> new, list |-> list, before |-> before]

\* All lists without a repeated name.
Lists == {s \in SeqOf(Names, Cardinality(Names)) : Cardinality(ToSet(s)) = Len(s)}

New == {Job(TRUE, s, {}) : s \in {<<1, 2>>, <<2, 1>>, <<1>>, <<1, 1>>}}

\* The importers in a fixed order: which one has which job does not matter.
Order == CHOOSE s \in SetToSeqs(Workers) : TRUE

Assign(jobs) == [w \in Workers |-> jobs[SelectInSeq(Order, LAMBDA v : v = w)]]

Idle == Job(TRUE, << >>, {})

\* Three importers of new faces, also of faces that repeat a name.
NewFaces ==
  {Assign(<<i, j, k>>) : i \in New, j \in {Job(TRUE, <<1, 2>>, {}), Job(TRUE, <<2, 1>>, {})}, k \in New}

\* A face with any types before and after, beside a new or existing one.
ExistingFaces ==
  {Assign(<<Job(FALSE, s, b), j, Idle>>) :
     s \in Lists, b \in {{}, {1}, {1, 2}, {2, 3}},
     j \in {Job(TRUE, <<3, 2>>, {}), Job(FALSE, <<1, 2, 3>>, {1}), Job(FALSE, <<2, 2>>, {2, 3})}}

AllJobs == NewFaces \cup ExistingFaces

\* An existing face and new ones of which no two lists are opposed.
AgreeingJobs ==
  [Workers -> {Job(FALSE, <<1, 2, 3>>, {1}), Job(TRUE, <<2, 3>>, {}), Job(TRUE, <<1, 2, 3>>, {})}]
=============================================================================
