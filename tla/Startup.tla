------------------------------- MODULE Startup -------------------------------
(***************************************************************************)
(* From main() to a server that runs.  BDHServerController::start parses   *)
(* hmi.xml; XmlLoader tells the controller of each element, and at the end *)
(* of the document - still inside the parser - the controller runs: it     *)
(* configures the database if it does not look configured, connects it,    *)
(* listens, and connects to the collector.  Only the last three of these   *)
(* could fail, and nobody looks at their results.                          *)
(*                                                                         *)
(* Every INSERT commits by itself, so a crash can leave any prefix of a    *)
(* configuration behind, and the next start judges it by the first table   *)
(* and the file b1.db alone.  The process may die at any point, inside the *)
(* rotation of a block too; hmi.xml may be another one at the next start.  *)
(*                                                                         *)
(* BlockStore models the blocks with their samples and sizes; here a block *)
(* is its file, and whether there is room for another is a free choice.    *)
(* No client queries the server here: HistorianQuery models what a query   *)
(* may do to the file of a block that is being recycled.                   *)
(***************************************************************************)
EXTENDS Integers, Sequences, FiniteSetsExt

CONSTANTS
    Documents,      \* what hmi.xml may hold: sequences of elements, a bdh element
                    \* with the disk size as a quint64
    DefaultDisk,    \* Configuration::Configuration
    MainSize, BtempSize,
    Blocks,         \* a hundred: the blocks the disk is divided into
    Word,           \* quint64 is a number modulo Word
    Garbage,        \* what the uninitialised block numbers in memory may hold
    MaxStarts, MaxBlock   \* bounds: starts of the process, blocks written

(* Configuration::setDiskSize, in unsigned arithmetic. *)
BlockSize(disk) == ((disk - (MainSize + BtempSize)) % Word) \div Blocks

(* A block of no bytes would be full although it is not open: no disk here *)
(* is divided into such blocks.                                            *)
ASSUME StartupAssumption ==
    /\ {DefaultDisk, MainSize, BtempSize, MaxStarts, MaxBlock} \subseteq Nat
    /\ Garbage \subseteq Nat /\ {Blocks, Word} \subseteq Nat \ {0}
    /\ \A d \in Documents :
          /\ Len(d) \in Nat \ {0} /\ DOMAIN d = 1 .. Len(d)
          /\ \A i \in DOMAIN d : d[i].tag = "bdh" => d[i].arg \in 0 .. Word - 1
    /\ BlockSize(DefaultDisk) > 0
    /\ \A d \in Documents : \A i \in DOMAIN d : d[i].tag = "bdh" => BlockSize(d[i].arg) > 0

VARIABLES
    pc,          \* where the main thread stands
    doc, at,     \* hmi.xml and the element it is being parsed at
    project,     \* m_projectTag
    conf,        \* m_configuration: vars, alarms, disk, block
    collector,   \* the TcpProxy m_collectorInterface points to
    row,         \* the row configure is inserting
    current,     \* m_currentBlockNumber
    oldest,      \* m_oldestBlockNumber
    size,        \* m_conf.blockSize()
    open,        \* m_currentBlockDB is open on a block with a VariablePoint table
    variables, alarms, config, catalog,    \* the tables of main.db
    files,       \* the block files in data/
    bare,        \* those that sqlite3_open made, without a table
    trouble,     \* (history) what has gone wrong with the database so far
    starts

process == <<doc, at, project, conf, collector, row, current, oldest, size, open>>
disk    == <<files, bare>>
tables  == <<variables, alarms, config, catalog>>
vars    == <<pc, process, tables, disk, trouble, starts>>

NewConfiguration == [vars |-> << >>, alarms |-> 0, disk |-> DefaultDisk,
                     block |-> BlockSize(DefaultDisk)]

(* data/ holds the files it is delivered with: main.db with empty tables   *)
(* and b1.db.                                                              *)
Init ==
    /\ pc = "off" /\ doc \in Documents /\ at = 1 /\ project = FALSE
    /\ conf = NewConfiguration /\ collector = "none" /\ row = 1
    /\ current \in Garbage /\ oldest \in Garbage
    /\ size = BlockSize(DefaultDisk) /\ open = FALSE
    /\ variables = {} /\ alarms = {} /\ config = << >> /\ catalog = {}
    /\ files = {1} /\ bare = {} /\ trouble = {} /\ starts = 0

-----------------------------------------------------------------------------
(* The process. *)

Gone == {"off", "exited", "segfault", "killed"}

(* main, the constructors, start and loadConfiguration up to the parser,   *)
(* or up to the exit(-1) where hmi.xml cannot be opened.                   *)
Start ==
    /\ pc \in Gone /\ starts < MaxStarts
    /\ starts' = starts + 1
    /\ pc' \in {"parse", "exited"} /\ doc' \in Documents /\ at' = 1 /\ project' = FALSE
    /\ conf' = NewConfiguration /\ collector' = "none" /\ row' = 1
    /\ current' \in Garbage /\ oldest' \in Garbage
    /\ size' = BlockSize(DefaultDisk) /\ open' = FALSE
    /\ UNCHANGED <<tables, disk, trouble>>

(* What a death may leave behind: variables without a configuration; block *)
(* 1, by which isConfigured judges, removed and not yet copied anew; the   *)
(* block that DB_Config calls current removed and not yet copied anew.     *)
Harm ==
    (IF variables # {} /\ config = << >> THEN {"half_configured"} ELSE {})
      \cup (IF 1 \notin files THEN {"no_first_block"} ELSE {})
      \cup (IF config # << >> /\ config[1].current \notin files \ bare
            THEN {"no_current_block"} ELSE {})
Dies ==
    /\ pc \notin Gone
    /\ pc' = "killed" /\ trouble' = trouble \cup Harm
    /\ UNCHANGED <<process, tables, disk, starts>>

-----------------------------------------------------------------------------
(* The parser: XmlLoader and the slots of the controller. *)

AddConfigurationCollector(e) ==
    e.tag = "collector" /\ collector' = e.arg /\ UNCHANGED <<project, conf>>
AddConfigurationBDHKeepsBlock(e) ==   \* mutant: the block size stays that of the default
    /\ e.tag = "bdh"
    /\ conf' = [conf EXCEPT !.disk = e.arg]
    /\ UNCHANGED <<project, collector>>
AddConfigurationBDH(e) ==
    /\ e.tag = "bdh"
    /\ conf' = [conf EXCEPT !.disk = e.arg, !.block = BlockSize(e.arg)]
    /\ UNCHANGED <<project, collector>>
AddConfigurationVariable(e) ==
    /\ e.tag = "variable"
    /\ conf' = [conf EXCEPT !.vars = Append(@, e.arg)]
    /\ UNCHANGED <<project, collector>>
AddConfigurationAlarm(e) ==
    /\ e.tag = "alarm"
    /\ conf' = [conf EXCEPT !.alarms = @ + 1]
    /\ UNCHANGED <<project, collector>>

Elements == {"project", "collector", "bdh", "variable", "alarm"}

(* XmlLoader::startElement *)
ProjectForgotten(e) == e.tag = "project" /\ UNCHANGED <<project, conf, collector>>   \* mutant
Project(e) == e.tag = "project" /\ project' = TRUE /\ UNCHANGED <<conf, collector>>
StartElement ==
    /\ pc = "parse" /\ at <= Len(doc)
    /\ LET e == doc[at]
       IN  /\ e.tag # "malformed" /\ (project \/ e.tag = "project")
           /\ \/ Project(e) \/ AddConfigurationCollector(e) \/ AddConfigurationBDH(e)
              \/ AddConfigurationVariable(e) \/ AddConfigurationAlarm(e)
              \/ e.tag \notin Elements /\ UNCHANGED <<project, conf, collector>>
    /\ at' = at + 1
    /\ UNCHANGED <<pc, doc, row, current, oldest, size, open, tables, disk, trouble, starts>>

(* startElement or fatalError stops the parser: exit(-1). *)
ParseFails ==
    /\ pc = "parse" /\ at <= Len(doc)
    /\ doc[at].tag = "malformed" \/ (~project /\ doc[at].tag # "project")
    /\ pc' = "exited"
    /\ UNCHANGED <<process, tables, disk, trouble, starts>>

-----------------------------------------------------------------------------
(* endDocument -> loadFinished -> run. *)

IsConfiguredByAlarms == alarms # {} /\ 1 \in files   \* mutant
IsConfigured == variables # {} /\ 1 \in files

Unsuited == conf.vars = << >>
EndDocument ==
    /\ pc = "parse" /\ at > Len(doc)
    /\ IF IsConfigured
       THEN pc' = "connect" /\ UNCHANGED <<size, trouble>>
       ELSE /\ pc' = "variables" /\ size' = conf.block
            /\ trouble' = IF Unsuited THEN trouble \cup {"no_variables"} ELSE trouble
    /\ UNCHANGED <<doc, at, project, conf, collector, row, current, oldest, open, tables, disk, starts>>

(* configure: an INSERT whose key is there already fails, which is logged. *)
StoreVariable ==
    /\ pc = "variables"
    /\ IF row <= Len(conf.vars)
       THEN variables' = variables \cup {conf.vars[row]} /\ row' = row + 1 /\ UNCHANGED pc
       ELSE pc' = "alarms" /\ row' = 1 /\ UNCHANGED variables
    /\ UNCHANGED <<doc, at, project, conf, collector, current, oldest, size, open,
                   alarms, config, catalog, disk, trouble, starts>>

(* idVariable of an alarm is never set: no query by variable finds it.     *)
StoreAlarm ==
    /\ pc = "alarms"
    /\ IF row <= conf.alarms
       THEN alarms' = alarms \cup {row - 1} /\ row' = row + 1 /\ UNCHANGED pc
       ELSE pc' = "config" /\ row' = 1 /\ UNCHANGED alarms
    /\ UNCHANGED <<doc, at, project, conf, collector, current, oldest, size, open,
                   variables, config, catalog, disk, trouble, starts>>

(* saveConfiguration: DB_Config has no key, a second row is added; ...     *)
SaveConfig ==
    /\ pc = "config"
    /\ config' = Append(config, [disk |-> conf.disk, size |-> conf.block,
                                current |-> 1, oldest |-> 1])
    /\ pc' = "catalog"
    /\ UNCHANGED <<process, variables, alarms, catalog, disk, trouble, starts>>

(* ... the Catalog has one. *)
SaveCatalog ==
    /\ pc = "catalog"
    /\ catalog' = catalog \cup {1}
    /\ pc' = "connect"
    /\ UNCHANGED <<process, variables, alarms, config, disk, trouble, starts>>

(* Opening a file that is not there makes SQLite create it, with no table. *)
OpenFile(b) ==
    /\ files' = files \cup {b}
    /\ bare' = IF b \in files THEN bare ELSE bare \cup {b}
    /\ open' = (b \in files' \ bare')

(* connect: what loadConfiguration returns is not looked at, so without a  *)
(* row the block numbers stay what they were.                              *)
ConnectWith(row1) ==
    /\ pc = "connect"
    /\ IF IsConfigured
       THEN /\ current' = row1.current /\ oldest' = row1.oldest /\ size' = row1.size
            /\ OpenFile(current')
       ELSE UNCHANGED <<current, oldest, size, open, disk>>
    /\ pc' = "listen"
    /\ UNCHANGED <<doc, at, project, conf, collector, row, tables, trouble, starts>>
InMemory == [current |-> current, oldest |-> oldest, size |-> size]
ConnectForgetsSize ==     \* mutant: loadConfiguration does not set the block size
    ConnectWith(IF config # << >> THEN [config[1] EXCEPT !.size = size] ELSE InMemory)
ConnectForgetsOldest ==   \* mutant: loadConfiguration does not set oldestBlock
    ConnectWith(IF config # << >> THEN [config[1] EXCEPT !.oldest = 1] ELSE InMemory)
Connect == ConnectWith(IF config # << >> THEN config[1] ELSE InMemory)

(* listen, then connectToServer of a TcpProxy that may not be there.       *)
ListenAndCollect ==
    /\ pc = "listen"
    /\ pc' = IF collector = "none" THEN "segfault" ELSE "running"
    /\ UNCHANGED <<process, tables, disk, trouble, starts>>

-----------------------------------------------------------------------------
(* storeVariablePoint finds the open block full, while the server runs.    *)
(* The UPDATEs reach the first row of DB_Config, if there is one.          *)
KeepProcess == UNCHANGED <<doc, at, project, conf, collector, row, size>>

UpdateCatalog ==
    /\ pc = "running" /\ open
    /\ catalog' = catalog \cup {current}
    /\ pc' \in IF current < MaxBlock THEN {"create", "remove"} ELSE {"remove"}
    /\ UNCHANGED <<process, variables, alarms, config, disk, trouble, starts>>

CreateNewBlock ==
    /\ pc = "create"
    /\ files' = files \cup {current + 1}
    /\ current' = current + 1
    /\ pc' = "saveCurrent"
    /\ KeepProcess /\ UNCHANGED <<oldest, open, tables, bare, trouble, starts>>

RemoveOldest ==
    /\ pc = "remove" /\ oldest \in files
    /\ files' = files \ {oldest} /\ bare' = bare \ {oldest}
    /\ pc' = "refill"
    /\ UNCHANGED <<process, tables, trouble, starts>>

RemoveFails ==
    /\ pc = "remove" /\ pc' = "running"
    /\ UNCHANGED <<process, tables, disk, trouble, starts>>

RefillOldest ==
    /\ pc = "refill"
    /\ files' = files \cup {oldest}
    /\ current' = oldest
    /\ oldest' = IF oldest = Max(catalog) THEN 1 ELSE oldest + 1
    /\ pc' = "recycleSaveCurrent"
    /\ KeepProcess /\ UNCHANGED <<open, tables, bare, trouble, starts>>

SaveFirstRow(r) == config' = IF config = << >> THEN config ELSE [config EXCEPT ![1] = r]
UpdateCurrentBlock ==
    /\ pc \in {"saveCurrent", "recycleSaveCurrent"}
    /\ SaveFirstRow([config[1] EXCEPT !.current = current])
    /\ pc' = IF pc = "saveCurrent" THEN "open" ELSE "saveOldest"
    /\ UNCHANGED <<process, variables, alarms, catalog, disk, trouble, starts>>

UpdateOldestBlock ==
    /\ pc = "saveOldest"
    /\ SaveFirstRow([config[1] EXCEPT !.oldest = oldest])
    /\ pc' = "open"
    /\ UNCHANGED <<process, variables, alarms, catalog, disk, trouble, starts>>

OpenCurrent ==
    /\ pc = "open"
    /\ OpenFile(current)
    /\ pc' = "running"
    /\ KeepProcess /\ UNCHANGED <<current, oldest, tables, trouble, starts>>

MainThread ==
    \/ StartElement \/ ParseFails \/ EndDocument \/ StoreVariable \/ StoreAlarm
    \/ SaveConfig \/ SaveCatalog \/ Connect \/ ListenAndCollect
Rotate ==
    \/ UpdateCatalog \/ CreateNewBlock \/ RemoveOldest \/ RemoveFails \/ RefillOldest
    \/ UpdateCurrentBlock \/ UpdateOldestBlock \/ OpenCurrent
Next == Start \/ Dies \/ MainThread \/ Rotate

Spec == Init /\ [][Next]_vars /\ WF_vars(MainThread)

-----------------------------------------------------------------------------
(* A server that runs writes the block its database names, with the block  *)
(* size and the oldest block its database names, whatever crashed on the   *)
(* way - unless a start met no variables, or the process died between the  *)
(* first variable and the row of DB_Config, or between the removal (732)   *)
(* and the copying (740) of block 1 or of the block it was writing.        *)
WritesWhatItSaved ==
    pc = "running" /\ trouble = {} =>
        /\ open /\ Len(config) = 1
        /\ current = config[1].current /\ oldest = config[1].oldest
        /\ size = config[1].size

(* After any other death and restart, of the blocks the Catalog names only *)
(* the one that is recycled next may be missing: no query of the others    *)
(* opens a file that is not there.                                         *)
CataloguedBlocksThere ==
    pc = "running" /\ trouble = {} => catalog \ files \subseteq {oldest}

(* A hundred blocks, main.db and btemp.db fit on the disk, if the last two *)
(* do; if they do not the size wraps around.                               *)
BlocksFit ==
    \A i \in DOMAIN config :
        MainSize + BtempSize <= config[i].disk =>
            Blocks * config[i].size + MainSize + BtempSize <= config[i].disk

(* Once the database is configured no later start changes its tables: what *)
(* hmi.xml says then is not looked at - the variables and the disk size    *)
(* stay those of the first start.  A start without variables, a death in   *)
(* the middle of configure and one while block 1 is recycled undo that:    *)
(* the next start configures again.                                        *)
KeepsConfiguration ==
    [][config # << >> /\ trouble \subseteq {"no_current_block"} =>
          /\ UNCHANGED <<variables, alarms>> /\ Len(config') = 1
          /\ config'[1].disk = config[1].disk /\ config'[1].size = config[1].size]_vars

(* A document with a project, a collector and no error comes up, and the   *)
(* server then has a block open, unless the database is in trouble.        *)
Sound(d) ==
    /\ d[1].tag = "project"
    /\ \A i \in DOMAIN d : d[i].tag # "malformed"
    /\ \E i \in DOMAIN d : d[i].tag = "collector"
ComesUp ==
    pc = "parse" /\ Sound(doc) ~> \/ pc = "running" /\ (open \/ trouble # {})
                                  \/ pc = "killed"
=============================================================================
