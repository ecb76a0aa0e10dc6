--------------------------- MODULE MCContractPage ---------------------------
EXTENDS ContractPage, TLC

\* What is typed on the upload page: a UUID without hyphens (32 characters) or a
\* label.  The approve page lists UUIDs as the backend prints them (36), and the
\* audit page has the one label REC-DE-4471 (11).
OfferedIds == [upload |-> {"simple", "label"}, approve |-> Ids \ {"simple", "label"},
               audit |-> {"label"}]

Lengths == [id \in Ids |-> CASE id = "simple" -> 32 [] id = "label" -> 11 [] OTHER -> 36]

UuidIds == Ids \ {"label"}
=============================================================================
