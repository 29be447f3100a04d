----------------------------- MODULE MCConsole -----------------------------
(* A provider with a version command, whose manifest comes and goes, and one that
   is not detected. *)
EXTENDS Console

MCProvider == {"claude", "internal"}

MCRegistries == {{"claude", "internal"}, {"internal"}}

MCKind == [claude |-> "cli", internal |-> "native"]

=============================================================================
