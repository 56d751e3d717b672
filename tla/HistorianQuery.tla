--------------------------- MODULE HistorianQuery ---------------------------
(***************************************************************************)
(* SQLiteDatabase::getVariableInRange, run by the connection threads while *)
(* the storage thread of BlockStore goes on storing and recycling blocks.  *)
(* All connection threads share the one connection m_consultBlockDB: a     *)
(* query looks up the blocks in the Catalog, then mounts and reads them    *)
(* one by one, and nothing keeps the storage thread or another query from  *)
(* acting between two of these steps ("TODO: Verificar que no este siendo  *)
(* leido este bloque (Posible semaforo)").                                 *)
(***************************************************************************)
EXTENDS BlockStore, Functions, Sequences

CONSTANTS Readers,     \* connection threads that ask for history
          Ranges,      \* the time ranges they may ask for
          MaxQueries   \* bound: queries in one behaviour

ASSUME HistorianQueryAssumption ==
    Ranges \subseteq [begin : Nat, end : Nat] /\ MaxQueries \in Nat

VARIABLES
    consult,   \* m_consultBlockDB: the block it is open on (0: none) and, when
               \* that file has been unlinked since, the contents it still reads
    query,     \* each reader's query: where it stands, its range, the blocks
               \* still to read, the batches of rows found so far
    due,       \* (history) the rows each query has to find
    queries    \* queries begun so far

readVars == <<consult, query, due, queries>>
allVars  == <<vars, readVars>>

NoRange  == [begin |-> 0, end |-> 0]
NoQuery  == [at |-> "idle", range |-> NoRange, todo |-> << >>, found |-> << >>]

InRange(rows, q) == {r \in rows : q.begin <= r.ts /\ r.ts <= q.end}

(* The Catalog rows that begin or end inside the range, by begin.          *)
Selected(q) ==
    {b \in DOMAIN catalog :
        \/ q.begin <= catalog[b].begin /\ catalog[b].begin <= q.end
        \/ q.begin <= catalog[b].end   /\ catalog[b].end <= q.end}
ByBegin(b, c) == \/ catalog[b].begin < catalog[c].begin
                 \/ catalog[b].begin = catalog[c].begin /\ b < c
InOrderOfBegin(S) ==
    CHOOSE s \in [1 .. Cardinality(S) -> S] :
        \A i, j \in DOMAIN s : i < j => ByBegin(s[i], s[j])
FirstBlockInTimeRange(q) ==   \* mutant: reads one block only
    InOrderOfBegin({b \in Selected(q) : \A c \in Selected(q) : ~ByBegin(c, b)})
BlocksInTimeRange(q) == InOrderOfBegin(Selected(q))

Closed == [block |-> 0, gone |-> FALSE, file |-> Empty]
QueryInit ==
    /\ Init
    /\ consult = Closed
    /\ query = [r \in Readers |-> NoQuery]
    /\ due = [r \in Readers |-> {}]
    /\ queries = 0

-----------------------------------------------------------------------------
(* While block 1 is the only one it is read directly, otherwise the        *)
(* Catalog says which blocks to read.  The query must find the rows its    *)
(* blocks hold in the range at this moment.                                *)
BlocksToRead(q) ==
    IF current = 1 /\ oldest = 1 THEN <<1>> ELSE BlocksInTimeRange(q)
Begin(r) ==
    /\ query[r].at = "idle" /\ queries < MaxQueries
    /\ queries' = queries + 1
    /\ \E q \in Ranges :
          /\ query' = [query EXCEPT ![r] =
                [at |-> IF BlocksToRead(q) = << >> THEN "done" ELSE "mount",
                 range |-> q, todo |-> BlocksToRead(q), found |-> << >>]]
          /\ due' = [due EXCEPT ![r] =
                UNION {InRange(files[b].rows, q) : b \in Blocks \cap Selected(q)}]
    /\ UNCHANGED <<vars, consult>>

(* mountConsultBlock closes the shared connection and opens it again; a    *)
(* missing file is created empty, without the table.                       *)
Mount(r) ==
    /\ query[r].at = "mount"
    /\ LET b == Head(query[r].todo)
       IN  OpenFile(b) /\ consult' = [block |-> b, gone |-> FALSE, file |-> Empty]
    /\ query' = [query EXCEPT ![r].at = "fetch"]
    /\ UNCHANGED <<used, catalog, dbConfig, memoryVars, pc, pending, boundVars,
                   due, queries>>

(* A block that cannot be opened is left out, and with it the rows only it *)
(* has; the shared connection stays closed.                                *)
MountFails(r) ==
    /\ query[r].at = "mount"
    /\ LET b    == Head(query[r].todo)
           rest == Tail(query[r].todo)
       IN  /\ query' = [query EXCEPT ![r].todo = rest,
                                     ![r].at = IF rest = << >> THEN "done" ELSE "mount"]
           /\ due' = [due EXCEPT ![r] = IF b \in Blocks THEN @ \ files[b].rows ELSE @]
    /\ consult' = Closed
    /\ UNCHANGED <<vars, queries>>

(* getDataFromConsultBlock reads whatever the shared connection is open on. *)
Consulted == IF consult.gone \/ consult.block = 0 THEN consult.file
             ELSE files[consult.block]
FetchInto(r, rest) ==
    query' = [query EXCEPT ![r].found = Append(@, InRange(Consulted.rows, query[r].range)),
                           ![r].todo = rest,
                           ![r].at = IF rest = << >> THEN "done" ELSE "mount"]
FetchTwice(r) ==   \* mutant: mounts the first block again
    /\ query[r].at = "fetch"
    /\ FetchInto(r, IF query[r].found = << >> THEN query[r].todo ELSE Tail(query[r].todo))
    /\ UNCHANGED <<vars, consult, due, queries>>
Fetch(r) ==
    /\ query[r].at = "fetch"
    /\ FetchInto(r, Tail(query[r].todo))
    /\ UNCHANGED <<vars, consult, due, queries>>

(* The answer is sent and forgotten. *)
Answer(r) ==
    /\ query[r].at = "done"
    /\ query' = [query EXCEPT ![r] = NoQuery]
    /\ due' = [due EXCEPT ![r] = {}]
    /\ UNCHANGED <<vars, consult, queries>>

(* A file unlinked while the shared connection is open on it can still be  *)
(* read there.                                                             *)
Unlink ==
    /\ RemoveOldest
    /\ consult' = IF consult.block = oldest /\ ~consult.gone
                  THEN [consult EXCEPT !.gone = TRUE, !.file = files[oldest]]
                  ELSE consult
    /\ UNCHANGED <<query, due, queries>>

Storage ==
    \/ Unlink
    \/ Run /\ ~RemoveOldest /\ UNCHANGED readVars
Reading(r) == Begin(r) \/ Mount(r) \/ MountFails(r) \/ Fetch(r) \/ Answer(r)

QueryNext == Storage \/ \E r \in Readers : Reading(r)
QuerySpec == QueryInit /\ [][QueryNext]_allVars

-----------------------------------------------------------------------------
Found(r)   == UNION Range(query[r].found)
StillStored == UNION {files[b].rows : b \in Blocks}

(* An answer has every sample of the selected blocks that lies in the      *)
(* range and has not been recycled meanwhile ...                           *)
ServesSelected ==
    \A r \in Readers : query[r].at = "done" => due[r] \cap StillStored \subseteq Found(r)

(* ... and has it once only, although getVariableInRange just appends.     *)
NoSampleTwice ==
    \A r \in Readers : \A i, j \in DOMAIN query[r].found :
        i # j => query[r].found[i] \cap query[r].found[j] = {}

(* "Por cada bloque q contiene esa variable en ese rango de tiempo"        *)
(* (sqlitedatabase.cpp:291): the blocks a query reads are all the filled   *)
(* blocks with a sample in its range.                                      *)
ReadsEveryBlock ==
    pc = "idle" => \A q \in Ranges, b \in Blocks \ {current} :
        InRange(files[b].rows, q) # {} => b \in Range(BlocksToRead(q))

(* "Copio el nuevo currentBlock a partir del bloque temporal"              *)
(* (sqlitedatabase.cpp:740): the block samples are inserted into has the   *)
(* table of the template.                                                  *)
InsertsSucceed == pc = "insert" => files[handle].table
=============================================================================
