----------------------------- MODULE DemoBatches ------------------------------
(***************************************************************************)
(* The batches of pages/api/demo/start.ts: what each clears, creates, needs*)
(* and puts in, and which are over before it.                              *)
(***************************************************************************)
EXTENDS FiniteSets, Naturals, TLC

\* The tables of the portfolio; nothing but migrations creates them.
Portfolio == {"wallets", "groups", "accounts", "snapshots", "events", "imports"}
Created == {"notes", "tins", "entries", "community", "destinations"}
Tables == Portfolio \union Created \union {"cache", "entities"}

\* A batch: what must be over before it, the tables it creates and needs, those
\* it clears of the demo's rows, and the rows it puts in, under ids that are the
\* same each time (an old row stays, or is written over) or new ones.
Batch(after, creates, needs, clears, kept, new) ==
    [after |-> after, creates |-> creates, needs |-> needs, clears |-> clears,
     kept |-> kept, new |-> new]

Insert(after, kept, new) == Batch(after, {}, kept \union new, {}, kept, new)
Afresh(after, t) == Batch(after, {t}, {}, {t}, {}, {})

\* One batch: a table that is missing leaves all the others uncleared.
Clear == [clear |-> Batch({}, {}, Portfolio \union {"notes", "cache"},
                          Portfolio \union {"notes", "cache"}, {}, {}),
          clearCommunity |-> Batch({"clear"}, {}, {"community"}, {"community"}, {}, {})]

\* The batches of a phase that fill the portfolio are taken as one.
Phase1 ==
    LET after == DOMAIN Clear IN
    [wallets |-> Insert(after, {"groups"}, {"wallets", "accounts"}),
     notes |-> Batch(after, {"notes"}, {}, {}, {"notes"}, {}),
     cache |-> Insert(after, {"cache"}, {})]

Phase2 == [exchangeWallets |-> Insert(DOMAIN Phase1, {"events"}, {"snapshots", "wallets"})]

Phase3 == [imports |-> Insert(DOMAIN Phase2, {"imports"}, {"snapshots"})]

\* What is seeded before ?debug=1 answers, and the tables it fills.
Portrait == Clear @@ Phase1 @@ Phase2 @@ Phase3
Shown == UNION {Portrait[b].kept \union Portrait[b].new : b \in DOMAIN Portrait}

\* Mutant: the sample tins are only created.
NeverCleared(after, t) == Batch(after, {t}, {}, {}, {}, {})

ClearedTins(after, t) == Afresh(after, t)

PetroTins ==
    [noTins |-> ClearedTins(DOMAIN Phase3, "tins"),
     tins |-> Insert({"noTins"}, {}, {"tins"}),
     noEntries |-> ClearedTins({"tins"}, "entries"),
     entries |-> Insert({"noEntries"}, {}, {"entries"})]

\* Nobody waits for these two.
CommunityTrust ==
    [communityTables |-> Batch({"entries"}, {"community"}, {}, {}, {}, {}),
     community |-> Insert({"communityTables"}, {"community"}, {})]

Destinations ==
    [noDestinations |-> Afresh({"entries"}, "destinations"),
     destinations |-> Insert({"noDestinations"}, {}, {"destinations"})]

\* One batch; its ON CONFLICT needs the index of the migration's table.
Entity == [entity |-> Batch({"destinations"}, {}, {"entities"}, {"entities"}, {"entities"}, {})]

Batches ==
    Portrait @@ PetroTins @@ CommunityTrust @@ Destinations @@ Entity

\* What one start puts into a table, and a number that is more than that.
Seed(t) == Cardinality({b \in DOMAIN Batches : t \in Batches[b].kept \union Batches[b].new})
Many == 3

=============================================================================
