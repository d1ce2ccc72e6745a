----------------------------- MODULE MCBindings -----------------------------
(* The native bindings and the virtual machine on small instances. *)
EXTENDS bindings

CONSTANTS z1, z2, d1, a, b, s1, g1, p1, output1, h1, h2, t1, t2

TwoZips == {z1, z2}
OneDescriptor == {d1}
TwoNames == {a, b}
TwoEntries == <<a, b>>
OneSource == {s1}
OneGain == {g1}
OnePanner == {p1}
SomeEdges == {<<g1, s1>>, <<p1, g1>>, <<output1, p1>>, <<output1, s1>>}
SomeRates == {1, 2}
SomeColors == {<<0, 0, 0, 0>>, <<0, 1, 1, 0>>, <<0, 0, 0, 1>>, <<1, 0, 0, 0>>}
SomeBytes == {0, 6, 15}
TwoHandles == {h1, h2}
TwoTables == {t1, t2}
TwoKeys == <<a, b>>
=============================================================================
