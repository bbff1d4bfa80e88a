------------------------------ MODULE MCSirit ------------------------------
(* Values of the constants of Sirit for the model checker.                 *)
EXTENDS Sirit

\* The words of a literal, of a string, of the name of an extension.
MCLiterals == {<<0>>}
MCNames == {<<7>>}
MCExtensions == {<<9>>, <<9, 0>>}
\* Logical with GLSL450, and PhysicalStorageBuffer64 with Vulkan, renumbered.
MCModels == {<<0, 1>>, <<2, 3>>}
=============================================================================
