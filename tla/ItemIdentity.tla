----------------------------- MODULE ItemIdentity -----------------------------
(***************************************************************************)
(* RealtimeIdentityTable (realtime/recovery.py): what a logical session    *)
(* knows of the provider's items.  A table is a function from ids          *)
(* (canonical ids and aliases) to identities; it outlives the sessions.    *)
(* The generation stamped on an identity only serves diagnostics and is    *)
(* left out.                                                               *)
(***************************************************************************)
EXTENDS Functions

EmptyTable == [id \in {} |-> {}]

\* Mutant: a new generation forgets nothing.
MutantBeginGeneration(table) == table

\* begin_generation: only confirmed user items go on.
BeginGeneration(table) ==
    Restrict(table, {id \in DOMAIN table : table[id].role = "user" /\ table[id].confirmed})

\* Mutant: an item registered again loses the aliases it had.
MutantLinked(table, id, aliases) == {id} \cup aliases

Linked(table, id, aliases) ==
    {id} \cup aliases \cup (IF id \in DOMAIN table THEN table[id].aliases ELSE {})

\* register, without the update: a role that another source reported stays when the
\* new report is weak, and is an error otherwise; an alias of another item is an error.
Registers(table, id, role, source, aliases) ==
    IF id \in DOMAIN table /\ table[id].role # role
    THEN IF source \in {"conversation_item", "output_item"} THEN "keep" ELSE "error"
    ELSE IF \E a \in Linked(table, id, aliases) \cap DOMAIN table : table[a].canonical # id
    THEN "error" ELSE "set"

\* register: confirmation and origin are sticky.
Register(table, id, role, source, confirmed, aliases) ==
    LET known == id \in DOMAIN table
        linked == Linked(table, id, aliases)
        item == [canonical |-> id, role |-> role, source |-> source, aliases |-> linked,
                 confirmed |-> confirmed \/ (known /\ table[id].confirmed),
                 origin |-> IF known THEN table[id].origin ELSE source]
    IN  IF Registers(table, id, role, source, aliases) # "set" THEN table
        ELSE [a \in DOMAIN table \cup linked |-> IF a \in linked THEN item ELSE table[a]]

IsUser(table, id) ==
    id \in DOMAIN table /\ table[id].role = "user" /\ table[id].canonical = id

=============================================================================
