---------------------------- MODULE MCMigrations ----------------------------
(* Databases for TLC's instance of Migrations.                             *)
EXTENDS Migrations, TLC

CONSTANTS k1, k2

\* A database of the sequence's time, nothing written or two versions used.
BySequence(last, called, versions) ==
  [db   |-> [EmptyDatabase EXCEPT !.goose = 2, !.resources = TRUE, !.events = TRUE,
                                  !.sequence = [last |-> last, called |-> called]],
   used |-> versions]

MCFound ==
  {[db |-> EmptyDatabase, used |-> <<>>],
   BySequence(1, FALSE, <<>>), BySequence(2, TRUE, <<1, 2>>)}
=============================================================================
