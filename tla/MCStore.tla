------------------------------ MODULE MCStore -------------------------------
(***************************************************************************)
(* Model values for RecordApi: two domains, each with four spellings.      *)
(***************************************************************************)
EXTENDS RecordApi

CONSTANTS example, other, lower, mixed

MCDomains == {example, other}
MCLetters == {lower, mixed}

=============================================================================
