----------------------------- MODULE MCLifecycle -----------------------------
(* Processes and addresses for the model checking of Lifecycle.             *)
EXTENDS Lifecycle, TLC

CONSTANTS p1, p2, tcp, path, abstract

ThreeFamilies == [a \in {tcp, path, abstract} |->
  CASE a = tcp -> "inet" [] a = path -> "path" [] OTHER -> "abstract"]

Anyone == Permutations(Processes)

=============================================================================
