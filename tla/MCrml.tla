-------------------------------- MODULE MCrml --------------------------------
(* rml, with its window and queues, on small instances. *)
EXTENDS rml, TLC

CONSTANTS q1, q2, g1, t1

TwoQueues == {q1, q2}
OneGeometry == {g1}
OneTexture == {t1}
TwoValues == {0, 1}
SomeCounts == {3}
SomeEvents == {"FRAMEBUFFER_RESIZE_EVENT", "CONTENT_SCALE_EVENT", "KEYBOARD_EVENT"}

Symmetry == Permutations(Queues)
=============================================================================
