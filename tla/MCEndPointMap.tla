---------------------------- MODULE MCEndPointMap ----------------------------
(* Instances of EndPointMap for TLC.                                         *)
EXTENDS EndPointMap

TwoNodes == [h \in Host |-> h]

Entry(h, slot) == [host |-> h, slot |-> slot, named |-> FALSE, name |-> <<>>]

Named(h, slot) == [host |-> h, slot |-> slot, named |-> TRUE, name |-> <<"own">>]

Route(out, in) == [output |-> out, input |-> in]

Text(type, name, number, inputs, outputs, snaps) ==
  [type |-> type, name |-> name, number |-> number,
   entries |-> [k \in Kind |-> IF k = "Input" THEN inputs ELSE outputs],
   snaps |-> snaps]

\* A good map; one with an endpoint twice, names, a slot that is missing and an output
\* 0; one with an output that is too high; one with a gap.
FourTexts ==
  LET three == <<Entry(2, 1), Entry(1, 1), Entry(2, 2)>>
      twice == <<Named(2, 2), Entry(2, 0), Entry(2, 2), Named(1, 1)>>
  IN { Text("Audio", "A", 1, three, three,
            << [name |-> "s", routes |-> <<Route(1, 2), Route(2, 0)>>] >>),
       Text("GPIO", "G", 2, twice, twice,
            << [name |-> "s", routes |-> <<Route(0, 1), Route(2, 1)>>],
               [name |-> "t", routes |-> <<Route(3, 3)>>] >>),
       Text("Audio", "B", 1, <<Entry(1, 1)>>, three,
            << [name |-> "s", routes |-> <<Route(1, 0), Route(4, 0)>>] >>),
       Text("Audio", "C", 3, [i \in {1, 3} |-> Entry(1, 1)], three, <<>>) }

Arguments(file, type, name, number, names, use, skip) ==
  [file |-> file, type |-> type, name |-> name, number |-> number,
   names |-> names, use |-> use, skip |-> skip]

ThreeArguments ==
  { Arguments("a", "Audio", "A", 1, TRUE, <<>>, {}),
    Arguments("a", "GPIO", "G", 2, FALSE, <<>>, {1}),
    Arguments("b", "Audio", "Livewire", 1, TRUE, <<2, 1>>, {}) }

=============================================================================
