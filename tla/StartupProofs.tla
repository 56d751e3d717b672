---------------------------- MODULE StartupProofs ----------------------------
(***************************************************************************)
(* What the start-up leaves in the database, for every hmi.xml, every      *)
(* sequence of starts and every point at which the process dies, inside    *)
(* the rotation of a block too.  That isConfigured looks at one table and  *)
(* one file only is enough as long as no start finds that table filled and *)
(* DB_Config empty, or that file missing: the invariant says where they    *)
(* may differ, and what memory, DB_Config and the files then have in       *)
(* common.                                                                 *)
(***************************************************************************)
EXTENDS Startup, TLAPS

Args == UNION {{d[i].arg : i \in DOMAIN d} : d \in Documents}

Row == [disk : Nat, size : Nat, current : Nat, oldest : Nat]

Types ==
    /\ doc \in Documents /\ at \in Nat \ {0}
    /\ conf \in [vars : Seq(Args), alarms : Nat, disk : Nat, block : Nat]
    /\ row \in Nat \ {0} /\ (pc = "parse" => row = 1)
    /\ current \in Nat /\ oldest \in Nat /\ size \in Nat
    /\ config \in Seq(Row)

(* Every block size there is comes from setDiskSize. *)
Sized ==
    /\ conf.block = BlockSize(conf.disk)
    /\ \A i \in DOMAIN config : config[i].size = BlockSize(config[i].disk)

(* Where a server has connected its database, rotations included.          *)
Serving == {"listen", "running", "create", "saveCurrent", "remove", "refill",
            "recycleSaveCurrent", "saveOldest", "open"}

(* While configure runs there is no row in DB_Config, and there will be    *)
(* variables; otherwise there are variables exactly if there is a row; and *)
(* block 1 is there, unless it is just being recycled.                     *)
Fair == trouble \subseteq {"no_current_block"}
Configuring ==
    pc \in {"variables", "alarms", "config"} =>
        /\ config = << >> /\ conf.vars # << >>
        /\ variables # {} \/ (pc = "variables" /\ row = 1)
Configured ==
    pc \notin {"variables", "alarms", "config"} =>
        IF variables = {} THEN config = << >> ELSE Len(config) = 1
Kept ==
    /\ Configuring /\ Configured
    /\ pc \in {"catalog", "connect"} \cup Serving => variables # {}
    /\ IF pc = "refill" THEN oldest \notin files /\ 1 \in files \cup {oldest}
       ELSE 1 \in files

(* A server that has connected has what the row says, but for the step     *)
(* that is being taken; the current block is there with its table, and of  *)
(* the blocks in the Catalog at most the oldest is missing.                *)
Connected ==
    pc \in Serving =>
        /\ open /\ size = config[1].size
        /\ pc \notin {"saveCurrent", "recycleSaveCurrent"} => current = config[1].current
        /\ pc \notin {"recycleSaveCurrent", "saveOldest"} => oldest = config[1].oldest
        /\ pc \in {"saveCurrent", "recycleSaveCurrent"} => current \in files
BlocksThere ==
    config # << >> =>
        /\ config[1].current \in files \/ (pc = "refill" /\ config[1].current = oldest)
        /\ catalog \ files \subseteq {config[1].oldest}
        /\ pc \in {"recycleSaveCurrent", "saveOldest"} => catalog \subseteq files
Whole == bare = {} /\ Connected /\ BlocksThere /\ (config = << >> => catalog = {})

IInv == Types /\ Sized /\ (Fair => Kept) /\ (trouble = {} => Kept /\ Whole)

-----------------------------------------------------------------------------
LEMMA BlockSizeIsNat == ASSUME NEW d \in Nat PROVE BlockSize(d) \in Nat
<1>1. MainSize \in Nat /\ BtempSize \in Nat /\ Word \in Nat \ {0} /\ Blocks \in Nat \ {0}
  BY StartupAssumption
<1>2. (d - (MainSize + BtempSize)) % Word \in Nat
  BY <1>1
<1> QED BY <1>1, <1>2 DEF BlockSize

(* A hundred times a hundredth is no more than the whole. *)
LEMMA BlocksOfASize ==
    ASSUME NEW d \in Nat, MainSize + BtempSize <= d
    PROVE  Blocks * BlockSize(d) + MainSize + BtempSize <= d
<1> DEFINE rest == d - (MainSize + BtempSize)
           cut == rest % Word
<1>0. MainSize \in Nat /\ BtempSize \in Nat /\ Word \in Nat \ {0} /\ Blocks \in Nat \ {0}
  BY StartupAssumption
<1>1. rest \in Nat
  BY <1>0
<1> HIDE DEF rest
<1>2. cut \in Nat /\ cut <= rest
  BY <1>0, <1>1
<1> HIDE DEF cut
<1>3. Blocks * (cut \div Blocks) <= cut
  BY <1>0, <1>2
<1>4. BlockSize(d) = cut \div Blocks
  BY DEF BlockSize, cut, rest
<1>5. Blocks * (cut \div Blocks) \in Int
  BY <1>0, <1>2
<1> QED BY <1>0, <1>2, <1>3, <1>4, <1>5 DEF rest

LEMMA InitIInv == Init => IInv
<1> SUFFICES ASSUME Init PROVE IInv
  OBVIOUS
<1> USE StartupAssumption DEF Init
<1>1. BlockSize(DefaultDisk) \in Nat
  BY BlockSizeIsNat
<1>2. Types
  BY <1>1 DEF Types, NewConfiguration
<1>3. Sized
  BY DEF Sized, NewConfiguration
<1>4. Kept /\ Whole
  BY DEF Kept, Whole, Configuring, Configured, Connected, BlocksThere, Serving
<1> QED BY <1>2, <1>3, <1>4 DEF IInv

(* A row of DB_Config with one number changed, and a DB_Config with its    *)
(* first row changed.                                                      *)
LEMMA FirstRowChanged ==
    ASSUME Types, Sized, config # << >>, NEW r \in Row, config' = [config EXCEPT ![1] = r],
           r.size = config[1].size, r.disk = config[1].disk, UNCHANGED conf
    PROVE  /\ config' \in Seq(Row) /\ Len(config') = Len(config) /\ config'[1] = r
           /\ config' # << >> /\ Sized'
<1>1. config \in Seq(Row) /\ 1 \in DOMAIN config
  BY DEF Types
<1>2. /\ config' \in Seq(Row) /\ Len(config') = Len(config) /\ config'[1] = r
      /\ DOMAIN config' = DOMAIN config
      /\ \A i \in DOMAIN config \ {1} : config'[i] = config[i]
  BY <1>1
<1>3. config' # << >>
  BY <1>1, <1>2
<1>4. Sized'
  BY <1>1, <1>2 DEF Sized
<1> QED BY <1>2, <1>3, <1>4

-----------------------------------------------------------------------------
(* One step per action.                                                    *)

LEMMA StartStep == ASSUME IInv, Start PROVE IInv'
<1> USE StartupAssumption DEF Start, IInv
<1>1. BlockSize(DefaultDisk) \in Nat
  BY BlockSizeIsNat
<1>2. UNCHANGED <<variables, config, catalog, files, bare, trouble>>
  BY DEF tables, disk
<1>3. pc' \in {"parse", "exited"} /\ pc \in {"off", "exited", "segfault", "killed"}
  BY DEF Gone
<1>4. Types'
  BY <1>1, <1>2, SMTT(30) DEF Types, NewConfiguration
<1>5. Sized'
  BY <1>2 DEF Sized, NewConfiguration
<1>6. (Fair => Kept)'
  BY <1>2, <1>3 DEF Fair, Kept, Configuring, Configured, Serving
<1>7. (trouble = {} => Kept /\ Whole)'
  BY <1>2, <1>3, <1>6 DEF Fair, Whole, Connected, BlocksThere, Serving
<1> QED BY <1>4, <1>5, <1>6, <1>7

LEMMA DiesStep == ASSUME IInv, Dies PROVE IInv'
<1> USE DEF Dies, IInv
<1>1. UNCHANGED <<doc, at, conf, row, current, oldest, size, variables, config, catalog, files, bare>>
  BY DEF process, tables, disk
<1>2. Types' /\ Sized'
  BY <1>1 DEF Types, Sized
<1>3. pc' = "killed" /\ trouble' = trouble \cup Harm
  OBVIOUS
<1>4. (Fair => Kept)'
  <2> SUFFICES ASSUME Fair' PROVE Kept'
    OBVIOUS
  <2>1. Fair /\ Kept
    BY <1>3 DEF Fair
  <2>2. "half_configured" \notin Harm /\ "no_first_block" \notin Harm
    BY <1>3 DEF Fair
  <2>3. (variables = {} \/ config # << >>) /\ 1 \in files
    BY <2>2 DEF Harm
  <2>4. Configured'
    BY <1>1, <1>3, <2>1, <2>3 DEF Kept, Configuring, Configured
  <2> QED BY <1>1, <1>3, <2>1, <2>3, <2>4 DEF Kept, Configuring, Serving
<1>5. (trouble = {} => Kept /\ Whole)'
  <2> SUFFICES ASSUME trouble' = {} PROVE Whole'
    BY <1>4 DEF Fair
  <2>1. trouble = {} /\ Whole /\ "no_current_block" \notin Harm
    BY <1>3
  <2>2. config # << >> => config[1].current \in files
    BY <2>1 DEF Harm
  <2> QED BY <1>1, <1>3, <2>1, <2>2 DEF Whole, Connected, BlocksThere, Serving
<1> QED BY <1>2, <1>4, <1>5

LEMMA ParseStep ==
    ASSUME IInv, StartElement \/ ParseFails
    PROVE  IInv'
<1> USE DEF IInv
<1>1. CASE ParseFails
  <2>1. /\ pc = "parse" /\ pc' = "exited"
        /\ UNCHANGED <<doc, at, conf, row, current, oldest, size, variables, config, catalog,
                       files, bare, trouble>>
    BY <1>1 DEF ParseFails, process, tables, disk
  <2> QED BY <2>1 DEF Types, Sized, Fair, Kept, Whole, Configuring, Configured, Connected,
                      BlocksThere, Serving
<1>2. CASE StartElement
  <2>1. /\ pc = "parse" /\ pc' = "parse" /\ at' = at + 1
        /\ UNCHANGED <<doc, row, current, oldest, size, variables, config, catalog,
                       files, bare, trouble>>
    BY <1>2 DEF StartElement, tables, disk
  <2>2. at \in DOMAIN doc
    BY <1>2, StartupAssumption DEF StartElement, Types
  <2>3. doc[at].arg \in Args
    BY <2>2 DEF Args, Types
  <2>4. conf' \in [vars : Seq(Args), alarms : Nat, disk : Nat, block : Nat]
        /\ conf'.block = BlockSize(conf'.disk)
    <3>1. CASE UNCHANGED conf
      BY <3>1 DEF Types, Sized
    <3>2. CASE AddConfigurationBDH(doc[at])
      <4>1. doc[at].arg \in Nat
        <5>1. doc \in Documents /\ doc[at].tag = "bdh"
          BY <3>2 DEF AddConfigurationBDH, Types
        <5>2. doc[at].arg \in 0 .. Word - 1
          BY <2>2, <5>1, StartupAssumption
        <5>3. Word \in Nat
          BY StartupAssumption
        <5> QED BY <5>2, <5>3
      <4>2. BlockSize(doc[at].arg) \in Nat
        BY <4>1, BlockSizeIsNat
      <4>3. /\ conf' = [conf EXCEPT !.disk = doc[at].arg, !.block = BlockSize(doc[at].arg)]
            /\ conf \in [vars : Seq(Args), alarms : Nat, disk : Nat, block : Nat]
        BY <3>2 DEF AddConfigurationBDH, Types
      <4>4. ASSUME NEW c \in [vars : Seq(Args), alarms : Nat, disk : Nat, block : Nat],
                   NEW d \in Nat, NEW b \in Nat
            PROVE  LET e == [c EXCEPT !.disk = d, !.block = b]
                   IN  /\ e \in [vars : Seq(Args), alarms : Nat, disk : Nat, block : Nat]
                       /\ e.disk = d /\ e.block = b
        OBVIOUS
      <4> QED BY <4>1, <4>2, <4>3, <4>4
    <3>3. CASE AddConfigurationVariable(doc[at])
      <4>1. /\ conf' = [conf EXCEPT !.vars = Append(conf.vars, doc[at].arg)]
            /\ conf \in [vars : Seq(Args), alarms : Nat, disk : Nat, block : Nat]
            /\ Append(conf.vars, doc[at].arg) \in Seq(Args)
        BY <2>3, <3>3 DEF AddConfigurationVariable, Types
      <4> QED BY <4>1 DEF Sized
    <3>4. CASE AddConfigurationAlarm(doc[at])
      <4>1. /\ conf' = [conf EXCEPT !.alarms = conf.alarms + 1]
            /\ conf \in [vars : Seq(Args), alarms : Nat, disk : Nat, block : Nat]
        BY <3>4 DEF AddConfigurationAlarm, Types
      <4>2. conf.alarms + 1 \in Nat
        BY <4>1
      <4> QED BY <4>1, <4>2 DEF Sized
    <3> QED BY <1>2, <3>1, <3>2, <3>3, <3>4
            DEF StartElement, Project, AddConfigurationCollector
  <2>5. Types' /\ Sized'
    BY <2>1, <2>4 DEF Types, Sized
  <2> QED BY <2>1, <2>5 DEF Fair, Kept, Whole, Configuring, Configured, Connected,
                             BlocksThere, Serving
<1> QED BY <1>1, <1>2

LEMMA EndDocumentStep == ASSUME IInv, EndDocument PROVE IInv'
<1> USE DEF IInv
<1>1. /\ pc = "parse" /\ pc' \in {"connect", "variables"} /\ row = 1
      /\ UNCHANGED <<doc, at, conf, row, current, oldest, variables, config, catalog, files, bare>>
  BY DEF EndDocument, tables, disk, Types
<1>2. size' \in Nat
  BY DEF EndDocument, Types
<1>3. Types' /\ Sized'
  BY <1>1, <1>2 DEF Types, Sized
<1>4. (Fair => Kept)'
  <2> SUFFICES ASSUME Fair' PROVE Kept'
    OBVIOUS
  <2>1. Fair /\ Kept /\ 1 \in files
    BY <1>1 DEF EndDocument, Fair, Kept
  <2>2. CASE IsConfigured
    <3>1. pc' = "connect" /\ variables # {}
      BY <2>2 DEF EndDocument, IsConfigured
    <3> QED BY <1>1, <2>1, <3>1 DEF Kept, Configuring, Configured
  <2>3. CASE ~IsConfigured
    <3>1. pc' = "variables" /\ variables = {}
      BY <2>1, <2>3 DEF EndDocument, IsConfigured
    <3>2. conf.vars # << >>
      BY <2>3 DEF EndDocument, Unsuited, Fair
    <3>3. config = << >>
      BY <1>1, <2>1, <3>1 DEF Kept, Configured
    <3> QED
      BY <1>1, <2>1, <3>1, <3>2, <3>3 DEF Kept, Configuring, Configured, Serving
  <2> QED BY <2>2, <2>3
<1>5. (trouble = {} => Kept /\ Whole)'
  <2> SUFFICES ASSUME trouble' = {} PROVE Whole'
    BY <1>4 DEF Fair
  <2>1. trouble = {} /\ Whole
    BY DEF EndDocument
  <2> QED BY <1>1, <2>1 DEF Whole, Connected, BlocksThere, Serving
<1> QED BY <1>3, <1>4, <1>5

LEMMA ConfigureStep ==
    ASSUME IInv, StoreVariable \/ StoreAlarm
    PROVE  IInv'
<1> USE DEF IInv
<1>1. /\ pc \in {"variables", "alarms"} /\ pc' \in {"variables", "alarms", "config"}
      /\ UNCHANGED <<doc, at, conf, current, oldest, size, config, catalog, files, bare, trouble>>
      /\ row' \in Nat \ {0}
  BY SMTT(30) DEF StoreVariable, StoreAlarm, Types, disk
<1>2. Types' /\ Sized'
  BY <1>1 DEF Types, Sized
<1>3. (Fair => Kept)'
  <2> SUFFICES ASSUME Fair PROVE Kept'
    BY <1>1 DEF Fair
  <2>1. Kept /\ conf.vars # << >> /\ config = << >> /\ 1 \in files
    BY <1>1 DEF Kept, Configuring
  <2>2. variables' # {}
    <3>1. CASE StoreAlarm
      BY <2>1, <3>1 DEF StoreAlarm, Kept, Configuring
    <3>2. CASE StoreVariable /\ row <= Len(conf.vars)
      BY <3>2 DEF StoreVariable
    <3>3. CASE StoreVariable /\ ~(row <= Len(conf.vars))
      <4>1. row # 1
        BY <2>1, <3>3 DEF Types
      <4> QED BY <2>1, <3>3, <4>1 DEF StoreVariable, Kept, Configuring
    <3> QED BY <3>1, <3>2, <3>3
  <2> QED BY <1>1, <2>1, <2>2 DEF Kept, Configuring, Configured, Serving
<1>4. (trouble = {} => Kept /\ Whole)'
  BY <1>1, <1>3 DEF Fair, Whole, Connected, BlocksThere, Serving
<1> QED BY <1>2, <1>3, <1>4

LEMMA SaveConfigStep == ASSUME IInv, SaveConfig PROVE IInv'
<1> USE DEF IInv
<1> DEFINE new == [disk |-> conf.disk, size |-> conf.block, current |-> 1, oldest |-> 1]
<1>1. /\ pc = "config" /\ pc' = "catalog" /\ config' = Append(config, new)
      /\ UNCHANGED <<doc, at, conf, row, current, oldest, size, open, variables, catalog,
                     files, bare, trouble>>
  BY DEF SaveConfig, process, disk
<1>2. new \in Row
  BY DEF Types, Row
<1>3. Types'
  BY <1>1, <1>2 DEF Types
<1>4. Sized'
  <2> SUFFICES ASSUME NEW i \in DOMAIN config'
               PROVE  config'[i].size = BlockSize(config'[i].disk)
    BY <1>1 DEF Sized
  <2>1. \/ i \in DOMAIN config /\ config'[i] = config[i]
        \/ config'[i] = new
    BY <1>1, <1>2 DEF Types
  <2> QED BY <2>1 DEF Sized
<1>5. Fair => config' = <<new>> /\ variables # {} /\ 1 \in files
  BY <1>1 DEF Kept, Configuring
<1>6. (Fair => Kept)'
  BY <1>1, <1>5 DEF Fair, Kept, Configuring, Configured, Types, Serving
<1>7. (trouble = {} => Kept /\ Whole)'
  <2> SUFFICES ASSUME trouble = {} PROVE Whole'
    BY <1>1, <1>6 DEF Fair
  <2>1. config' = <<new>> /\ 1 \in files /\ Whole
    BY <1>5 DEF Fair
  <2>2. config'[1].current = 1 /\ config'[1].oldest = 1
    BY <2>1
  <2>3. catalog = {}
    BY <1>1, <2>1 DEF Fair, Kept, Configuring, Whole
  <2> QED BY <1>1, <2>1, <2>2, <2>3 DEF Whole, Connected, BlocksThere, Serving
<1> QED BY <1>3, <1>4, <1>6, <1>7

LEMMA SaveCatalogStep == ASSUME IInv, SaveCatalog PROVE IInv'
<1> USE DEF IInv
<1>1. /\ pc = "catalog" /\ pc' = "connect" /\ catalog' = catalog \cup {1}
      /\ UNCHANGED <<doc, at, conf, row, current, oldest, size, open, variables, config,
                     files, bare, trouble>>
  BY DEF SaveCatalog, process, disk
<1>2. Types' /\ Sized'
  BY <1>1 DEF Types, Sized
<1>3. (Fair => Kept)'
  BY <1>1 DEF Fair, Kept, Configuring, Configured, Serving
<1>4. (trouble = {} => Kept /\ Whole)'
  <2> SUFFICES ASSUME trouble = {} PROVE Whole'
    BY <1>1, <1>3 DEF Fair
  <2>1. Whole /\ config # << >> /\ 1 \in files
    BY <1>1 DEF Fair, Kept, Configured
  <2> QED BY <1>1, <2>1 DEF Whole, Connected, BlocksThere, Serving
<1> QED BY <1>2, <1>3, <1>4

LEMMA ConnectStep == ASSUME IInv, Connect PROVE IInv'
<1> USE DEF IInv, ConnectWith
<1>1. /\ pc = "connect" /\ pc' = "listen"
      /\ UNCHANGED <<doc, at, conf, row, variables, config, catalog, trouble>>
  BY DEF Connect, tables
<1>2. config # << >> => config[1] \in Row
  BY DEF Types
<1>3. current' \in Nat /\ oldest' \in Nat /\ size' \in Nat
  BY <1>2 DEF Connect, Types, Row, InMemory
<1>4. Types' /\ Sized'
  BY <1>1, <1>3 DEF Types, Sized
<1>5. files \subseteq files'
  BY DEF Connect, OpenFile, disk
<1>6. (Fair => Kept)'
  BY <1>1, <1>5 DEF Fair, Kept, Configuring, Configured, Serving
<1>7. (trouble = {} => Kept /\ Whole)'
  <2> SUFFICES ASSUME trouble = {} PROVE Whole'
    BY <1>1, <1>6 DEF Fair
  <2>1. Kept /\ Whole /\ variables # {} /\ Len(config) = 1 /\ config # << >> /\ 1 \in files
    BY <1>1 DEF Kept, Configured
  <2>2. IsConfigured
    BY <2>1 DEF IsConfigured
  <2>3. /\ current' = config[1].current /\ oldest' = config[1].oldest /\ size' = config[1].size
        /\ OpenFile(current')
    BY <2>1, <2>2 DEF Connect
  <2>4. current' \in files /\ bare = {}
    BY <1>1, <2>1, <2>3 DEF Whole, BlocksThere
  <2>5. files' = files /\ bare' = {} /\ open'
    BY <2>3, <2>4 DEF OpenFile
  <2> QED BY <1>1, <2>1, <2>3, <2>4, <2>5 DEF Whole, Connected, BlocksThere, Serving
<1> QED BY <1>4, <1>6, <1>7

LEMMA ListenStep == ASSUME IInv, ListenAndCollect PROVE IInv'
<1>1. /\ pc = "listen" /\ pc' \in {"segfault", "running"}
      /\ UNCHANGED <<doc, at, conf, row, current, oldest, size, open, variables, config, catalog,
                     files, bare, trouble>>
  BY DEF ListenAndCollect, process, tables, disk
<1> QED BY <1>1 DEF IInv, Types, Sized, Fair, Kept, Whole, Configuring, Configured, Connected,
                    BlocksThere, Serving

-----------------------------------------------------------------------------
(* The rotation.  First the steps that leave DB_Config alone.              *)
LEMMA UpdateCatalogStep == ASSUME IInv, UpdateCatalog PROVE IInv'
<1> USE DEF IInv
<1>1. /\ pc = "running" /\ pc' \in {"create", "remove"} /\ catalog' = catalog \cup {current}
      /\ UNCHANGED <<doc, at, conf, row, current, oldest, size, open, variables, config,
                     files, bare, trouble>>
  BY DEF UpdateCatalog, process, disk
<1>2. Types' /\ Sized'
  BY <1>1 DEF Types, Sized
<1>3. (Fair => Kept)'
  BY <1>1 DEF Fair, Kept, Configuring, Configured, Serving
<1>4. (trouble = {} => Kept /\ Whole)'
  <2> SUFFICES ASSUME trouble = {} PROVE Whole'
    BY <1>1, <1>3 DEF Fair
  <2>1. Whole /\ config # << >> /\ current = config[1].current
    BY <1>1 DEF Kept, Configured, Whole, Connected, Serving
  <2>2. current \in files
    BY <1>1, <2>1 DEF Whole, BlocksThere
  <2> QED BY <1>1, <2>1, <2>2 DEF Whole, Connected, BlocksThere, Serving
<1> QED BY <1>2, <1>3, <1>4

LEMMA CreateNewBlockStep == ASSUME IInv, CreateNewBlock PROVE IInv'
<1> USE DEF IInv
<1>1. /\ pc = "create" /\ pc' = "saveCurrent" /\ current' = current + 1
      /\ files' = files \cup {current + 1}
      /\ UNCHANGED <<doc, at, conf, row, oldest, size, open, variables, config, catalog,
                     bare, trouble>>
  BY DEF CreateNewBlock, KeepProcess, tables
<1>2. Types' /\ Sized'
  BY <1>1 DEF Types, Sized
<1>3. (Fair => Kept)'
  BY <1>1 DEF Fair, Kept, Configuring, Configured, Serving
<1>4. (trouble = {} => Kept /\ Whole)'
  BY <1>1, <1>3 DEF Fair, Whole, Connected, BlocksThere, Serving
<1> QED BY <1>2, <1>3, <1>4

LEMMA RemoveStep == ASSUME IInv, RemoveOldest \/ RemoveFails PROVE IInv'
<1> USE DEF IInv
<1>1. CASE RemoveFails
  <2>1. /\ pc = "remove" /\ pc' = "running"
        /\ UNCHANGED <<doc, at, conf, row, current, oldest, size, open, variables, config,
                       catalog, files, bare, trouble>>
    BY <1>1 DEF RemoveFails, process, tables, disk
  <2> QED BY <2>1 DEF Types, Sized, Fair, Kept, Whole, Configuring, Configured, Connected,
                      BlocksThere, Serving
<1>2. CASE RemoveOldest
  <2>1. /\ pc = "remove" /\ pc' = "refill" /\ oldest \in files
        /\ files' = files \ {oldest} /\ bare' = bare \ {oldest}
        /\ UNCHANGED <<doc, at, conf, row, current, oldest, size, open, variables, config,
                       catalog, trouble>>
    BY <1>2 DEF RemoveOldest, process, tables
  <2>2. Types' /\ Sized'
    BY <2>1 DEF Types, Sized
  <2>3. (Fair => Kept)'
    BY <2>1 DEF Fair, Kept, Configuring, Configured, Serving
  <2>4. (trouble = {} => Kept /\ Whole)'
    <3> SUFFICES ASSUME trouble = {} PROVE Whole'
      BY <2>1, <2>3 DEF Fair
    <3>1. Whole /\ config # << >> /\ oldest = config[1].oldest
      BY <2>1 DEF Kept, Configured, Whole, Connected, Serving
    <3>2. bare' = {} /\ Connected'
      BY <2>1, <3>1 DEF Whole, Connected, Serving
    <3>3. BlocksThere'
      BY <2>1, <3>1 DEF Whole, BlocksThere
    <3> QED BY <3>2, <3>3, <2>1, <3>1 DEF Whole
  <2> QED BY <2>2, <2>3, <2>4
<1> QED BY <1>1, <1>2

LEMMA RefillOldestStep == ASSUME IInv, RefillOldest PROVE IInv'
<1> USE DEF IInv
<1>1. /\ pc = "refill" /\ pc' = "recycleSaveCurrent" /\ current' = oldest
      /\ oldest' \in {1, oldest + 1} /\ files' = files \cup {oldest}
      /\ UNCHANGED <<doc, at, conf, row, size, open, variables, config, catalog,
                     bare, trouble>>
  BY DEF RefillOldest, KeepProcess, tables
<1>2. Types' /\ Sized'
  BY <1>1 DEF Types, Sized
<1>3. (Fair => Kept)'
  BY <1>1 DEF Fair, Kept, Configuring, Configured, Serving
<1>4. (trouble = {} => Kept /\ Whole)'
  <2> SUFFICES ASSUME trouble = {} PROVE Whole'
    BY <1>1, <1>3 DEF Fair
  <2>1. Whole /\ config # << >> /\ oldest = config[1].oldest
    BY <1>1 DEF Kept, Configured, Whole, Connected, Serving
  <2>2. catalog \subseteq files'
    BY <1>1, <2>1 DEF Whole, BlocksThere
  <2>3. config[1].current \in files'
    BY <1>1, <2>1 DEF Whole, BlocksThere
  <2> QED BY <1>1, <2>1, <2>2, <2>3 DEF Whole, Connected, BlocksThere, Serving
<1> QED BY <1>2, <1>3, <1>4

LEMMA OpenCurrentStep == ASSUME IInv, OpenCurrent PROVE IInv'
<1> USE DEF IInv
<1>1. /\ pc = "open" /\ pc' = "running" /\ OpenFile(current)
      /\ UNCHANGED <<doc, at, conf, row, current, oldest, size, variables, config, catalog, trouble>>
  BY DEF OpenCurrent, KeepProcess, tables
<1>2. Types' /\ Sized'
  BY <1>1 DEF Types, Sized
<1>3. (Fair => Kept)'
  BY <1>1 DEF Fair, Kept, Configuring, Configured, Serving, OpenFile
<1>4. (trouble = {} => Kept /\ Whole)'
  <2> SUFFICES ASSUME trouble = {} PROVE Whole'
    BY <1>1, <1>3 DEF Fair
  <2>1. Whole /\ config # << >> /\ current = config[1].current
    BY <1>1 DEF Kept, Configured, Whole, Connected, Serving
  <2>2. files' = files /\ bare' = {} /\ open'
    BY <1>1, <2>1 DEF Whole, BlocksThere, OpenFile
  <2> QED BY <1>1, <2>1, <2>2 DEF Whole, Connected, BlocksThere, Serving
<1> QED BY <1>2, <1>3, <1>4

(* Then those that save a number in it.                                    *)
LEMMA UpdateBlockStep == ASSUME IInv, UpdateCurrentBlock \/ UpdateOldestBlock PROVE IInv'
<1> USE DEF IInv
<1>1. /\ pc \in {"saveCurrent", "recycleSaveCurrent", "saveOldest"}
      /\ pc' = IF pc = "recycleSaveCurrent" THEN "saveOldest" ELSE "open"
      /\ UNCHANGED <<doc, at, conf, row, current, oldest, size, open, variables, catalog,
                     files, bare, trouble>>
  BY DEF UpdateCurrentBlock, UpdateOldestBlock, process, disk
<1> DEFINE new == IF pc = "saveOldest" THEN [config[1] EXCEPT !.oldest = oldest]
                  ELSE [config[1] EXCEPT !.current = current]
<1>2. config' = IF config = << >> THEN config ELSE [config EXCEPT ![1] = new]
  BY DEF UpdateCurrentBlock, UpdateOldestBlock, SaveFirstRow
<1>3. config # << >> => config[1] \in Row
  BY DEF Types
<1>4. ASSUME config # << >>
      PROVE  /\ new \in Row /\ new.size = config[1].size /\ new.disk = config[1].disk
             /\ new.current = IF pc = "saveOldest" THEN config[1].current ELSE current
             /\ new.oldest = IF pc = "saveOldest" THEN oldest ELSE config[1].oldest
  <2>1. config[1] \in Row /\ current \in Nat /\ oldest \in Nat
    BY <1>3, <1>4 DEF Types
  <2>2. CASE pc = "saveOldest"
    BY <2>1, <2>2 DEF Row
  <2>3. CASE pc # "saveOldest"
    BY <2>1, <2>3 DEF Row
  <2> QED BY <2>2, <2>3
<1> HIDE DEF new
<1>5. ASSUME config # << >>
      PROVE  /\ config' \in Seq(Row) /\ Len(config') = Len(config) /\ config'[1] = new
             /\ config' # << >> /\ Sized'
  BY <1>1, <1>2, <1>4, <1>5, FirstRowChanged
<1>6. Types' /\ Sized'
  <2>1. CASE config = << >>
    BY <1>1, <1>2, <2>1 DEF Types, Sized
  <2>2. CASE config # << >>
    BY <1>1, <1>5, <2>2 DEF Types
  <2> QED BY <2>1, <2>2
<1>7. (Fair => Kept)'
  <2> SUFFICES ASSUME Fair PROVE Kept'
    BY <1>1 DEF Fair
  <2>1. Kept /\ variables # {} /\ Len(config) = 1 /\ config # << >>
    BY <1>1 DEF Kept, Configured, Serving
  <2> QED BY <1>1, <1>5, <2>1 DEF Kept, Configuring, Configured, Serving
<1>8. (trouble = {} => Kept /\ Whole)'
  <2> SUFFICES ASSUME trouble = {} PROVE Whole'
    BY <1>1, <1>7 DEF Fair
  <2>1. Whole /\ config # << >>
    BY <1>1 DEF Kept, Configured, Serving
  <2>2. Connected'
    BY <1>1, <1>4, <1>5, <2>1 DEF Whole, Connected, Serving
  <2>3. BlocksThere'
    BY <1>1, <1>4, <1>5, <2>1 DEF Whole, Connected, BlocksThere, Serving
  <2> QED BY <1>1, <1>5, <2>1, <2>2, <2>3 DEF Whole
<1> QED BY <1>6, <1>7, <1>8

LEMMA StepIInv == IInv /\ [Next]_vars => IInv'
<1> SUFFICES ASSUME IInv, [Next]_vars PROVE IInv'
  OBVIOUS
<1>1. CASE UNCHANGED vars
  BY <1>1 DEF vars, process, tables, disk, IInv, Types, Sized, Fair, Kept, Whole, Configuring,
              Configured, Connected, BlocksThere
<1> QED
  BY <1>1, StartStep, DiesStep, ParseStep, EndDocumentStep, ConfigureStep, SaveConfigStep,
     SaveCatalogStep, ConnectStep, ListenStep, UpdateCatalogStep, CreateNewBlockStep,
     RemoveStep, RefillOldestStep, UpdateBlockStep, OpenCurrentStep
  DEF Next, MainThread, Rotate

-----------------------------------------------------------------------------
(* SQLiteDatabase::connect opens the block DB_Config names, with the block *)
(* size and the oldest block it names, and no rotation changes that, after *)
(* any sequence of starts and deaths that did not harm the database.       *)
THEOREM WritesWhatItSavedAlways == Spec => []WritesWhatItSaved
<1>1. IInv => WritesWhatItSaved
  <2> SUFFICES ASSUME IInv, pc = "running", trouble = {}
               PROVE  /\ open /\ Len(config) = 1
                      /\ current = config[1].current /\ oldest = config[1].oldest
                      /\ size = config[1].size
    BY DEF WritesWhatItSaved
  <2>1. Kept /\ Whole
    BY DEF IInv
  <2> QED BY <2>1 DEF Kept, Configured, Whole, Connected, Serving
<1> QED BY <1>1, InitIInv, StepIInv, PTL DEF Spec

(* Of the blocks the Catalog names only the one that is recycled next may  *)
(* be missing, after a death between its removal and its copying.          *)
THEOREM CataloguedBlocksStay == Spec => []CataloguedBlocksThere
<1>1. IInv => CataloguedBlocksThere
  <2> SUFFICES ASSUME IInv, pc = "running", trouble = {}
               PROVE  catalog \ files \subseteq {oldest}
    BY DEF CataloguedBlocksThere
  <2>1. Kept /\ Whole
    BY DEF IInv
  <2>2. config # << >> /\ oldest = config[1].oldest
    BY <2>1 DEF Kept, Configured, Whole, Connected, Serving
  <2> QED BY <2>1, <2>2 DEF Whole, BlocksThere
<1> QED BY <1>1, InitIInv, StepIInv, PTL DEF Spec

(* Configuration::setDiskSize: the blocks, main.db and btemp.db fit on the *)
(* disk, whatever its size and the width of the arithmetic.                *)
THEOREM BlocksAlwaysFit == Spec => []BlocksFit
<1>1. IInv => BlocksFit
  <2> SUFFICES ASSUME IInv, NEW i \in DOMAIN config, MainSize + BtempSize <= config[i].disk
               PROVE  Blocks * config[i].size + MainSize + BtempSize <= config[i].disk
    BY DEF BlocksFit
  <2>1. config[i].disk \in Nat /\ config[i].size = BlockSize(config[i].disk)
    <3>1. config[i] \in Row
      BY DEF IInv, Types
    <3> QED BY <3>1 DEF IInv, Sized, Row
  <2> QED BY <2>1, BlocksOfASize
<1> QED BY <1>1, InitIInv, StepIInv, PTL DEF Spec

(* No later start adds to the tables or changes what DB_Config says of the *)
(* disk, and no rotation does: isConfigured keeps configure from running   *)
(* twice, unless a start met no variables or the process died in the       *)
(* middle of configure or while block 1 was removed.                       *)
THEOREM ConfigurationKept == Spec => KeepsConfiguration
<1> DEFINE Same == /\ UNCHANGED <<variables, alarms>> /\ Len(config') = 1
                   /\ config'[1].disk = config[1].disk /\ config'[1].size = config[1].size
<1>1. IInv /\ [Next]_vars => [config # << >> /\ trouble \subseteq {"no_current_block"} => Same]_vars
  <2> SUFFICES ASSUME IInv, Next, config # << >>, Fair PROVE Same
    BY DEF Fair
  <2>1. pc \notin {"variables", "alarms", "config"} /\ Len(config) = 1
    BY DEF IInv, Kept, Configuring, Configured
  <2>2. UNCHANGED <<variables, alarms>>
    BY <2>1 DEF Next, MainThread, Rotate, Start, Dies, StartElement, ParseFails, EndDocument,
                StoreVariable, StoreAlarm, SaveConfig, SaveCatalog, Connect, ConnectWith,
                ListenAndCollect, UpdateCatalog, CreateNewBlock, RemoveOldest, RemoveFails,
                RefillOldest, UpdateCurrentBlock, UpdateOldestBlock, OpenCurrent, tables
  <2>3. CASE UpdateCurrentBlock \/ UpdateOldestBlock
    <3>1. PICK r \in {[config[1] EXCEPT !.current = current],
                      [config[1] EXCEPT !.oldest = oldest]} :
             config' = [config EXCEPT ![1] = r] /\ UNCHANGED conf
      BY <2>3 DEF UpdateCurrentBlock, UpdateOldestBlock, SaveFirstRow, process
    <3>2. config[1] \in Row /\ current \in Nat /\ oldest \in Nat /\ Types /\ Sized
      BY <2>1 DEF IInv, Types
    <3>3. r \in Row /\ r.size = config[1].size /\ r.disk = config[1].disk
      <4>1. CASE r = [config[1] EXCEPT !.current = current]
        BY <3>2, <4>1 DEF Row
      <4>2. CASE r = [config[1] EXCEPT !.oldest = oldest]
        BY <3>2, <4>2 DEF Row
      <4> QED BY <3>1, <4>1, <4>2
    <3>4. Len(config') = Len(config) /\ config'[1] = r
      BY <3>1, <3>2, <3>3, FirstRowChanged
    <3> QED BY <2>1, <2>2, <3>3, <3>4
  <2>4. CASE UNCHANGED config
    BY <2>1, <2>2, <2>4
  <2> QED BY <2>1, <2>3, <2>4 DEF Next, MainThread, Rotate, Start, Dies, StartElement,
                ParseFails, EndDocument, StoreVariable, StoreAlarm, SaveConfig, SaveCatalog,
                Connect, ConnectWith, ListenAndCollect, UpdateCatalog, CreateNewBlock,
                RemoveOldest, RemoveFails, RefillOldest, OpenCurrent, tables
<1> QED BY <1>1, InitIInv, StepIInv, PTL DEF Spec, KeepsConfiguration
=============================================================================
