-------------------------------- MODULE MCConfigUi --------------------------------
(* ConfigUi with a long that counts to 11, labels at its end and beyond it. *)
EXTENDS ConfigUi

Label(width, value) == [head |-> <<"Stage ">>, width |-> width, value |-> value]

MCTypedLabels == {Label(0, 0), Label(1, 9), Label(2, 11), Label(2, 12)}

Symmetry == Permutations(Names)
===================================================================================
