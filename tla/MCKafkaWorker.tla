--------------------------- MODULE MCKafkaWorker ----------------------------
\* Two partitions: two records of one key before a record that cannot be
\* decoded, and another such record; a fetch returns at most two.
EXTENDS KafkaWorker, TLC

CONSTANTS p1, p2, r1, r2, r3, r4, ka, kb, kc

MCLog == p1 :> <<r1, r2, r3>> @@ p2 :> <<r4>>
MCKey == r1 :> ka @@ r2 :> ka @@ r3 :> kb @@ r4 :> kc

=============================================================================
