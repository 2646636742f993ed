---------------------------- MODULE MCSnapshotFeed ----------------------------
EXTENDS SnapshotFeed, TLC

CONSTANTS w1, w2, c1

MCWriters == {w1, w2}
MCClients == {c1}

=============================================================================
