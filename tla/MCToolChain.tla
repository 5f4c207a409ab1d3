---------------------------- MODULE MCToolChain -----------------------------
(***************************************************************************)
(* Bounded instance of ToolChain: a machine of each family, and of each    *)
(* range of models that the tools distinguish; twelve CPUs, so that some   *)
(* numbers have two digits.                                                *)
(***************************************************************************)
EXTENDS ToolChain

MCFamilies == {<<16, 2>>, <<18, 1>>, <<20, 1>>, <<21, 1>>, <<21, 2>>, <<21, 16>>,
               <<21, 32>>, <<21, 48>>, <<21, 96>>, <<22, 0>>, <<23, 1>>}
MCIdBits == {5, 6, 7, 8, 9, 10}
\* One bit of each kind: low, around the split of the field, beyond every field.
MCArgs == {0, 1, 32768, 65536 + 9, 4194304, 8388608 + 4}
\* Texts of one line, and texts whose second line looks like a line of the header.
MCTexts == {<<Other>>, <<Other, <<"Model", 1>>>>, <<Other, <<"Microcode", 1>>>>,
            <<Other, <<"OpData2_4_5", 7>>, End>>}
\* Below, at and above the limits of the counters of 20 and 27 bits.
MCRates == {143, 144, 262144 + 7, 1048575, 1048576, 134217727, 134217728}
=============================================================================
