--------------------------- MODULE TransitionCfg ----------------------------
(***************************************************************************)
(* What a transition record holds and how it is read back.  `at config`    *)
(* sends a map of data fields to every core, one core after the other; a   *)
(* core keeps a generic map and a hash table of maps for exact addresses   *)
(* and fills a record from the one that applies to the guest RIP.  The     *)
(* command engine mirrors the maps; at enable, at onload and at config     *)
(* export write the mirror to trace_cfg.bin beside the trace files, and    *)
(* the trace parser picks the map of a record from that file.              *)
(*                                                                         *)
(* An address is a number.  A restart of revhv-um starts with an empty     *)
(* mirror; the tables of the cores and the file survive it.  There is one  *)
(* output directory, and a file is written whole.                          *)
(***************************************************************************)
EXTENDS Integers, Sequences

CONSTANTS
  NCfgCores,     \* number of cores
  TableSize,     \* max_exact_transition_cfgs, a power of two
  CfgAddr,       \* addresses a user configures; 0 is one of them
  CfgRip,        \* guest RIPs that leave the target
  CfgMap,        \* maps a user configures: sequences of max_data_fields fields
  CfgFormat,     \* display formats: sets of fields, {} for none
  RegValue,      \* the value of each field but "none" and "rip"
  DefaultGeneric, \* default_generic_cfg
  MaxConfigs, MaxLost, MaxRestarts   \* bounds: commands, unreadable requests, restarts

CfgField == DOMAIN RegValue \cup {"none", "rip"}

ASSUME TransitionCfgAssumption ==
  /\ NCfgCores \in Nat \ {0} /\ TableSize \in Nat \ {0}
  /\ CfgAddr \subseteq Nat /\ CfgRip \subseteq Nat \ {0}
  /\ DefaultGeneric \in CfgMap /\ \A m \in CfgMap : m \in Seq(CfgField) /\ Len(m) = Len(DefaultGeneric)
  /\ CfgFormat \subseteq SUBSET CfgField
  /\ {MaxConfigs, MaxLost, MaxRestarts} \subseteq Nat

VARIABLES
  generic_transition_cfg,   \* per core
  exact_transition_cfgs,    \* per core: the table, [addr, cfg] per slot
  exact_transition_cfg_count,
  m_generic,     \* the engine's m_generic_transition_cfg / fmt: [cfg, fmt]
  m_exact,       \* the engine's m_exact_transition_cfgs, by address: [cfg, fmt]
  cfg_call,      \* config_ept_transition under way: [scope, addr, cfg, core, ok, some]
  configs, lost, restarts,  \* counters of the bounds
  trace_cfg_bin, \* the file: [saved, generic, exact]; the parser's defaults while it is not saved
  unmirrored,    \* maps that reached only some of the cores, or that an earlier revhv-um
                 \* configured: the mirror may not have what a core has
  differs        \* maps that were unmirrored at the export or set on a core since

coreCfgVars == <<generic_transition_cfg, exact_transition_cfgs, exact_transition_cfg_count>>
cfgVars == <<coreCfgVars, m_generic, m_exact, cfg_call, configs, lost, restarts,
             trace_cfg_bin, unmirrored, differs>>

CfgCore == 1 .. NCfgCores
Slot == 0 .. TableSize - 1
FieldIndex == 1 .. Len(DefaultGeneric)
AllNone == [i \in FieldIndex |-> "none"]
GenericKey == -1   \* the generic map's name in unmirrored and differs

Idle == [scope |-> "idle", addr |-> 0, cfg |-> AllNone, core |-> 0, ok |-> TRUE, some |-> FALSE]

-----------------------------------------------------------------------------
(* The slots from an address's own on, in probing order. *)
Probe(addr, i) == ((addr \div 8) + i) % TableSize

(* insert_exact_transition_cfg: the first slot that holds the address or   *)
(* is empty; TableSize when the table is full.                             *)
InsertAt(table, addr) ==
  LET fits == {i \in Slot : table[Probe(addr, i)].addr \in {addr, 0}}
  IN  IF fits = {} THEN TableSize ELSE CHOOSE i \in fits : \A j \in fits : i <= j

insert_exact_transition_cfg(c, addr, cfg) ==
  LET i == InsertAt(exact_transition_cfgs[c], addr)
      s == Probe(addr, i)
      new == exact_transition_cfgs[c][s].addr # addr
  IN  IF i = TableSize THEN UNCHANGED <<exact_transition_cfgs, exact_transition_cfg_count>>
      ELSE /\ exact_transition_cfgs' = [exact_transition_cfgs EXCEPT ![c][s] = [addr |-> addr, cfg |-> cfg]]
           /\ exact_transition_cfg_count' = [exact_transition_cfg_count EXCEPT ![c] = @ + (IF new THEN 1 ELSE 0)]

(* lookup_transition_cfg stops at the first empty slot. *)
lookup_first_slot(c, rip) ==
  LET e == exact_transition_cfgs[c][Probe(rip, 0)]
  IN  IF exact_transition_cfg_count[c] > 0 /\ e.addr = rip THEN e.cfg ELSE generic_transition_cfg[c]

lookup_transition_cfg(c, rip) ==
  LET table == exact_transition_cfgs[c]
      hits == {i \in Slot : /\ table[Probe(rip, i)].addr = rip
                            /\ \A j \in 0 .. i : table[Probe(rip, j)].addr # 0}
  IN  IF exact_transition_cfg_count[c] > 0 /\ hits # {}
      THEN table[Probe(rip, CHOOSE i \in hits : TRUE)].cfg
      ELSE generic_transition_cfg[c]

resolve_data_field(f, rip) ==
  CASE f = "none" -> 0
    [] f = "rip" -> rip
    [] OTHER -> RegValue[f]

resolve_data_fields(cfg, rip) == [i \in FieldIndex |-> resolve_data_field(cfg[i], rip)]

(* find_data_slot: 0 stands for -1. *)
find_data_slot(cfg, f) ==
  LET at == {i \in FieldIndex : cfg[i] = f}
  IN  IF at = {} THEN 0 ELSE CHOOSE i \in at : \A j \in at : i <= j

(* load_trace_cfg: the slot that holds the RIP in every record.            *)
m_rip_slot == IF trace_cfg_bin.saved THEN find_data_slot(trace_cfg_bin.generic.cfg, "rip") ELSE 0

(* format_entry: the map and the format of a record, found by the RIP in   *)
(* the generic map's rip slot, and the <<field, value>> pairs of the line. *)
format_entry(data) ==
  LET generic == trace_cfg_bin.generic
      exact == m_rip_slot > 0 /\ data[m_rip_slot] \in DOMAIN trace_cfg_bin.exact
      own == trace_cfg_bin.exact[data[m_rip_slot]]
      cfg == IF exact THEN own.cfg ELSE generic.cfg
      fmt == IF exact /\ own.fmt # {} THEN own.fmt ELSE generic.fmt
      value(f) == LET i == find_data_slot(cfg, f) IN IF i > 0 THEN data[i] ELSE 0
  IN  IF fmt # {} THEN {<<f, value(f)>> : f \in fmt}
      ELSE {<<cfg[i], data[i]>> : i \in {j \in FieldIndex : cfg[j] # "none"}}

-----------------------------------------------------------------------------
(* The engine's constructor pushes the default map to every core. *)
PushDefault == [Idle EXCEPT !.scope = "startup", !.cfg = DefaultGeneric, !.core = 1]

CfgInit ==
  /\ generic_transition_cfg = [c \in CfgCore |-> AllNone]
  /\ exact_transition_cfgs = [c \in CfgCore |-> [s \in Slot |-> [addr |-> 0, cfg |-> AllNone]]]
  /\ exact_transition_cfg_count = [c \in CfgCore |-> 0]
  /\ m_generic = [cfg |-> DefaultGeneric, fmt |-> {}]
  /\ m_exact = <<>>
  /\ cfg_call = PushDefault
  /\ configs = 0 /\ lost = 0 /\ restarts = 0
  /\ trace_cfg_bin = [saved |-> FALSE, generic |-> m_generic, exact |-> m_exact]
  /\ unmirrored = {} /\ differs = {GenericKey}

(* at config generic / exact <addr> *)
handle_at_config(scope, addr, cfg) ==
  /\ cfg_call = Idle /\ configs < MaxConfigs
  /\ cfg_call' = [Idle EXCEPT !.scope = scope, !.addr = addr, !.cfg = cfg, !.core = 1]
  /\ configs' = configs + 1
  /\ UNCHANGED <<coreCfgVars, m_generic, m_exact, lost, restarts, trace_cfg_bin, unmirrored, differs>>

(* at config fmt generic / exact <addr>; clear sets the empty format. *)
handle_at_config_fmt(scope, addr, fmt) ==
  /\ cfg_call = Idle /\ configs < MaxConfigs
  /\ IF scope = "generic" THEN m_generic' = [m_generic EXCEPT !.fmt = fmt] /\ UNCHANGED m_exact
     ELSE /\ m_exact' = IF addr \in DOMAIN m_exact THEN [m_exact EXCEPT ![addr].fmt = fmt] ELSE m_exact
          /\ UNCHANGED m_generic
  /\ configs' = configs + 1
  /\ UNCHANGED <<coreCfgVars, cfg_call, lost, restarts, trace_cfg_bin, unmirrored, differs>>

(* The map that a call is about. *)
CallKey == IF cfg_call.scope = "exact" THEN {cfg_call.addr} ELSE {GenericKey}

(* One turn of config_ept_transition: handle_at_config_ept_transition on   *)
(* one core.  `got` says whether the request could be read there.          *)
config_ept_transition(got) ==
  /\ cfg_call.core \in CfgCore
  /\ got \/ lost < MaxLost
  /\ LET c == cfg_call.core
         ok == got /\ (cfg_call.scope = "exact" =>
                         InsertAt(exact_transition_cfgs[c], cfg_call.addr) < TableSize)
     IN  /\ IF ~got THEN UNCHANGED coreCfgVars
            ELSE IF cfg_call.scope = "exact"
            THEN /\ insert_exact_transition_cfg(c, cfg_call.addr, cfg_call.cfg)
                 /\ UNCHANGED generic_transition_cfg
            ELSE /\ generic_transition_cfg' = [generic_transition_cfg EXCEPT ![c] = cfg_call.cfg]
                 /\ UNCHANGED <<exact_transition_cfgs, exact_transition_cfg_count>>
         /\ cfg_call' = [cfg_call EXCEPT !.core = @ + 1, !.ok = @ /\ ok, !.some = @ \/ ok]
         /\ lost' = IF got THEN lost ELSE lost + 1
         /\ differs' = IF ok THEN differs \cup CallKey ELSE differs
  /\ UNCHANGED <<m_generic, m_exact, configs, restarts, trace_cfg_bin, unmirrored>>

(* The mirror takes the new map when every core took it; the constructor   *)
(* ignores the result.                                                     *)
Mirror ==
  IF cfg_call.scope = "exact"
  THEN /\ m_exact' = [a \in DOMAIN m_exact \cup {cfg_call.addr} |->
                        IF a # cfg_call.addr THEN m_exact[a]
                        ELSE [cfg |-> cfg_call.cfg, fmt |-> IF a \in DOMAIN m_exact THEN m_exact[a].fmt ELSE {}]]
       /\ UNCHANGED m_generic
  ELSE m_generic' = [m_generic EXCEPT !.cfg = cfg_call.cfg] /\ UNCHANGED m_exact

ConfigDone ==
  /\ cfg_call.core = NCfgCores + 1
  /\ IF cfg_call.ok THEN Mirror /\ unmirrored' = unmirrored \ CallKey
     ELSE /\ UNCHANGED <<m_generic, m_exact>>
          /\ unmirrored' = IF cfg_call.some \/ cfg_call.scope = "startup" THEN unmirrored \cup CallKey
                           ELSE unmirrored
  /\ cfg_call' = Idle
  /\ UNCHANGED <<coreCfgVars, configs, lost, restarts, trace_cfg_bin, differs>>

(* at enable, at onload, at config export.  A file that does not open is    *)
(* left as it was.                                                         *)
export_trace_config ==
  /\ cfg_call = Idle
  /\ trace_cfg_bin' = [saved |-> TRUE, generic |-> m_generic, exact |-> m_exact]
  /\ differs' = unmirrored
  /\ UNCHANGED <<coreCfgVars, m_generic, m_exact, cfg_call, configs, lost, restarts, unmirrored>>

(* revhv-um ends and is started again. *)
Restart ==
  /\ cfg_call = Idle /\ restarts < MaxRestarts
  /\ m_generic' = [cfg |-> DefaultGeneric, fmt |-> {}]
  /\ m_exact' = <<>>
  /\ cfg_call' = PushDefault
  /\ unmirrored' = unmirrored \cup DOMAIN m_exact
  /\ restarts' = restarts + 1
  /\ UNCHANGED <<coreCfgVars, configs, lost, trace_cfg_bin, differs>>

CfgNext ==
  \/ \E cfg \in CfgMap :
       handle_at_config("generic", 0, cfg) \/ \E a \in CfgAddr : handle_at_config("exact", a, cfg)
  \/ \E fmt \in CfgFormat :
       handle_at_config_fmt("generic", 0, fmt) \/ \E a \in CfgAddr : handle_at_config_fmt("exact", a, fmt)
  \/ \E got \in BOOLEAN : config_ept_transition(got)
  \/ ConfigDone \/ export_trace_config
  \/ Restart

-----------------------------------------------------------------------------
(* The parser finds the map of a record by the RIP in the generic map's     *)
(* slot: the design relies on every exact map having it there.             *)
RipInPlace(rip) ==
  rip \in DOMAIN trace_cfg_bin.exact => m_rip_slot > 0 /\ trace_cfg_bin.exact[rip].cfg[m_rip_slot] = "rip"

(* A record for any RIP on any core, whose generic and exact maps the      *)
(* exported file has as the core has them (each reached all the cores from *)
(* this revhv-um, and was not set again after the export), is read back as *)
(* written by a parser that loads the file: each value on its line is that *)
(* of the field it is shown for, or 0 for a field a format asks for and    *)
(* the record does not hold; and with no format, the line shows every      *)
(* field that the core recorded.  Maps not in differs have not changed     *)
(* since the export, so this is about every record written since then.     *)
DecodedAsWritten ==
  \A c \in CfgCore, rip \in CfgRip :
    {GenericKey, rip} \cap differs = {} /\ RipInPlace(rip) =>
      LET cfg == lookup_transition_cfg(c, rip)
          line == format_entry(resolve_data_fields(cfg, rip))
          recorded == {cfg[i] : i \in FieldIndex} \ {"none"}
          file == trace_cfg_bin
      IN  /\ \A p \in line : p[2] = IF p[1] \in recorded THEN resolve_data_field(p[1], rip) ELSE 0
          /\ \/ file.generic.fmt # {} \/ (rip \in DOMAIN file.exact /\ file.exact[rip].fmt # {})
             \/ {p[1] : p \in line} = recorded
=============================================================================
