---------------------------- MODULE Ser2netPorts ----------------------------
(***************************************************************************)
(* ser2net/dataxfer.c and readconfig.c: the ports of the serial server,    *)
(* their sessions, and the configuration file that is read again while     *)
(* sessions run.  A port in use is replaced or removed when its session    *)
(* ends; until then the new configuration waits in new_config.             *)
(*                                                                         *)
(* The list of ports has one port per name, since portconfig looks for the *)
(* name first; a port_info object is known by its name and by the number   *)
(* of the configuration that made it.  Handlers run one at a time, and the *)
(* file is read between two rounds of the select loop.  When the program   *)
(* does something that C leaves undefined the model stops.                 *)
(***************************************************************************)
EXTENDS Integers

CONSTANTS
  Names,         \* TCP ports that may be configured
  Devices,       \* serial devices
  UsbDevices,    \* those of them that are looked up by their USB path
  States,        \* states the control port may give a port
  Lines,         \* per name, the lines that a configuration file may have
  DirtyNames,    \* bound: names whose ports may be made in dirty memory
  MaxConfigs,    \* bound: times the file is read
  MaxRestarts,   \* bound: times the program dies
  MaxEnables     \* bound: setportenable commands

ASSUME PortsAssumption ==
  /\ UsbDevices \subseteq Devices
  /\ States \subseteq {"off", "raw", "telnet"}
  /\ \A n \in Names : Lines[n] \subseteq [dev : Devices, state : States]
  /\ MaxConfigs \in Nat /\ MaxRestarts \in Nat /\ MaxEnables \in Nat

VARIABLES
  port,          \* per name, the port_info in the list, or None
  new_config,    \* per name, what will replace it, or None
  accepting,     \* per name, the object to which the accept handler's data
                 \* point, by its number, or 0 when no socket is bound
  config_num,
  lock,          \* per device, the UUCP lock file's owner
  monitor,       \* <<name, number>> of the port a controller monitors, or <<>>
  undefined,     \* "no", or what the program did whose effect is not defined
  \* history
  config,        \* what the file said when it was read last
  leaked,        \* devices whose lock was left behind by a failed look-up
  odd,           \* what has happened that the program does not cope with
  restarts, enables

objects == <<port, new_config, accepting, undefined, odd>>
counters == <<restarts, enables>>
vars == <<objects, config_num, lock, monitor, config, leaked, counters>>

\* The members of odd: a port could not be bound; a port was to be off; a
\* port was configured again with new_config waiting; a port was freed while a
\* controller monitored it.

None == [number |-> 0]

\* A configuration file: a line for each of some names
Configs ==
  UNION {{f \in [S -> UNION {Lines[n] : n \in S}] : \A n \in S : f[n] \in Lines[n]}
         : S \in SUBSET Names}

Connected(p) == p # None /\ p.connected
-----------------------------------------------------------------------------
(***************************************************************************)
(* What a change of the configuration does to the objects of one name: a   *)
(* record of port, new_config, accepting, undefined and odd.               *)
(***************************************************************************)
\* sel_set_fd_handlers for the accept socket of p, which must be a descriptor
\* that the port owns.
SetAcceptHandlers(s, p) ==
  IF p.acceptfd = "open" THEN [s EXCEPT !.accepting = p.number]
  ELSE [s EXCEPT !.undefined = "acceptfd"]

\* startup_port: when it fails acceptfd keeps a number that is closed.  The
\* socket of a port that is off and still listens keeps the address.
StartupPort(s, p, fails) ==
  IF fails \/ s.accepting # 0
  THEN [s EXCEPT !.port = [p EXCEPT !.acceptfd = "closed"], !.odd = @ \cup {"unbound"}]
  ELSE [s EXCEPT !.port = [p EXCEPT !.acceptfd = "open"], !.accepting = p.number]

\* change_port_state of the listed port
ChangePortState(s, state, fails) ==
  LET p == s.port
      started == IF p.enabled = "off" THEN StartupPort(s, p, fails) ELSE s IN
  CASE p.enabled = state -> s
    [] p.enabled # state /\ state = "off" ->
         [s EXCEPT !.port = [p EXCEPT !.enabled = "off", !.acceptfd = "none"],
                   !.accepting = IF p.acceptfd = "open" THEN 0 ELSE @,
                   !.undefined = IF p.acceptfd = "closed" THEN "acceptfd" ELSE @]
    [] p.enabled # state /\ state # "off" -> [started EXCEPT !.port.enabled = state]

\* p goes with the monitor pointers it has.
Freed(s, p) ==
  [s EXCEPT !.odd = @ \cup IF p.monitor \in {"tcp", "dev"} THEN {"orphan"} ELSE {}]

\* Mutant: a port is freed with its socket open.
FreePortOpen(s) == [Freed(s, s.port) EXCEPT !.port = None, !.new_config = None]

\* free_port takes a port out of the list and disables it before.
FreePort(s) ==
  [ChangePortState(Freed(s, s.port), "off", FALSE) EXCEPT !.port = None, !.new_config = None]

\* init_port_data and the line's values.  dev_monitor is not initialised: it is
\* what malloc's memory holds there, a "wild" pointer when that is dirty.
NewPort(line, num, dirty) ==
  [number |-> num, dev |-> line.dev, enabled |-> line.state, acceptfd |-> "none",
   config_num |-> num, connected |-> FALSE,
   monitor |-> IF dirty THEN "wild" ELSE "none",
   tuned |-> FALSE]

\* Mutant: the accept handler keeps its data.
TakeOverSilently(s, new) ==
  [Freed(s, s.port) EXCEPT !.port = [new EXCEPT !.acceptfd = s.port.acceptfd]]

\* A port that is replaced while nobody uses it hands its socket over.
TakeOver(s, new) ==
  LET kept == [new EXCEPT !.acceptfd = s.port.acceptfd] IN
  [SetAcceptHandlers(Freed(s, s.port), kept) EXCEPT !.port = kept]

\* Mutant: a port in use is replaced at once.
PortConfigAtOnce(s, new, fails) ==
  IF s.port = None THEN StartupPort(s, new, fails)
  ELSE ChangePortState(TakeOver(s, [new EXCEPT !.enabled = s.port.enabled]),
                       new.enabled, fails)

\* portconfig: a new port, or a new configuration for a port that is replaced
\* now, or later when it is in use.
PortConfig(s, new, fails) ==
  LET curr == s.port
      waits == s.new_config # None IN
  CASE curr = None /\ new.enabled = "off" -> [s EXCEPT !.port = new]
    [] curr = None /\ new.enabled # "off" ->
         IF fails \/ s.accepting # 0 THEN [s EXCEPT !.odd = @ \cup {"unbound"}]
         ELSE StartupPort(s, new, fails)
    [] curr # None /\ ~Connected(curr) ->
         ChangePortState(TakeOver(s, [new EXCEPT !.enabled = curr.enabled]),
                         new.enabled, fails)
    [] Connected(curr) ->
         [s EXCEPT !.port.enabled = IF waits THEN "off" ELSE @,
                   !.port.config_num = new.config_num,
                   !.new_config = new,
                   !.odd = @ \cup IF waits THEN {"twice"} ELSE {}]

\* clear_old_port_config, for one port
ClearOld(s, num) ==
  LET p == s.port IN
  CASE p = None \/ p.config_num = num -> s
    [] p # None /\ p.config_num # num /\ ~p.connected -> FreePort(s)
    [] p # None /\ p.config_num # num /\ p.connected -> [s EXCEPT !.port.config_num = -1]
-----------------------------------------------------------------------------
Defined == undefined = "no"

Objects ==
  [n \in Names |-> [port |-> port[n], new_config |-> new_config[n],
                    accepting |-> accepting[n], undefined |-> undefined, odd |-> odd]]

NoObjects ==
  [n \in Names |-> [port |-> None, new_config |-> None, accepting |-> 0,
                    undefined |-> "no", odd |-> {}]]

\* The objects are now the given ones.
Become(objs) == \E f \in {objs} :
  /\ port' = [n \in Names |-> f[n].port]
  /\ new_config' = [n \in Names |-> f[n].new_config]
  /\ accepting' = [n \in Names |-> f[n].accepting]
  /\ undefined' = IF \A n \in Names : f[n].undefined = "no" THEN "no" ELSE "acceptfd"
  /\ odd' = UNION {f[n].odd : n \in Names}

\* readconfig: every line, then the ports that are in none.  No two lines have
\* the same name, and what one does to a name leaves the others alone.
ReadConfig(f, cfg, num, fails, dirty) ==
  [n \in Names |->
     ClearOld(IF n \in DOMAIN cfg
              THEN PortConfig(f[n], NewPort(cfg[n], num, n \in dirty), n \in fails)
              ELSE f[n], num)]

Off(cfg) == IF \E n \in DOMAIN cfg : cfg[n].state = "off" THEN {"off"} ELSE {}

\* Any of the ports may fail to bind, and the memory of any may be dirty.
Read(s, cfg, num) ==
  /\ \E fails \in SUBSET DOMAIN cfg, dirty \in SUBSET (DirtyNames \cap DOMAIN cfg) :
       \E f \in {ReadConfig(s, cfg, num, fails, dirty)} :
         Become([n \in Names |-> [f[n] EXCEPT !.odd = @ \cup Off(cfg)]])
  /\ config_num' = num
  /\ config' = cfg

Init ==
  /\ port = [n \in Names |-> None] /\ new_config = [n \in Names |-> None]
  /\ accepting = [n \in Names |-> 0]
  /\ undefined = "no" /\ odd = {}
  /\ config_num = 0 /\ config = <<>>
  /\ lock = [d \in Devices |-> "free"]
  /\ monitor = <<>>
  /\ leaked = {} /\ restarts = 0 /\ enables = 0

\* The file is read at the start and on SIGHUP.
Reload ==
  /\ Defined
  /\ config_num < MaxConfigs
  /\ \E cfg \in Configs : Read(Objects, cfg, config_num + 1)
  /\ UNCHANGED <<lock, monitor, leaked, counters>>
-----------------------------------------------------------------------------
InUse(name) ==
  \E n \in Names \ {name} : Connected(port[n]) /\ port[n].dev = port[name].dev

\* uucp_mk_lock: whose the lock is when it returns.  The lock file of a
\* process that died is removed, and a second later another one may be there.
MkLock(d) ==
  CASE lock[d] = "free" -> {"got"}
    [] lock[d] = "dead" -> {"got", "other"}
    [] OTHER -> {lock[d]}

\* setup_tcp_port fails after the lock was made: a failed look-up of a USB
\* device leaves the lock behind, a failed open or tcsetattr does not.
SetupFails(d) ==
  \/ /\ lock' = [lock EXCEPT ![d] = "free"]
     /\ UNCHANGED leaked
  \/ /\ d \in UsbDevices
     /\ lock' = [lock EXCEPT ![d] = "us"]
     /\ leaked' = leaked \cup {d}

SetupTcpPort(name) ==
  LET d == port[name].dev IN
  \E l \in MkLock(d) :
    \/ /\ l = "got"
       /\ lock' = [lock EXCEPT ![d] = "us"]
       /\ port' = [port EXCEPT ![name].connected = TRUE]
       /\ UNCHANGED leaked
    \/ /\ l = "got"
       /\ SetupFails(d)
       /\ UNCHANGED port
    \/ /\ l # "got"
       /\ lock' = [lock EXCEPT ![d] = l]
       /\ UNCHANGED <<port, leaked>>

\* handle_accept_port_read; a connection that is refused leaves no trace.
HandleAccept(name) ==
  /\ Defined
  /\ accepting[name] # 0
  /\ IF port[name].number # accepting[name]
     THEN undefined' = "freed" /\ UNCHANGED <<port, lock, leaked>>
     ELSE /\ ~Connected(port[name]) /\ ~InUse(name)
          /\ SetupTcpPort(name)
          /\ UNCHANGED undefined
  /\ UNCHANGED <<new_config, accepting, odd, config_num, monitor, config, counters>>

\* Mutant: new_config goes before a removal.
SuccessorFirst(s) ==
  IF s.new_config # None THEN [TakeOver(s, s.new_config) EXCEPT !.new_config = None]
  ELSE IF s.port.config_num = -1 THEN FreePort(s) ELSE s

\* The end of shutdown_port: a port that was removed goes, one with a new
\* configuration hands its socket over.
Successor(s) ==
  CASE s.port.config_num = -1 -> FreePort(s)
    [] s.port.config_num # -1 /\ s.new_config # None ->
         [TakeOver(s, s.new_config) EXCEPT !.new_config = None]
    [] OTHER -> s

\* Mutant: the lock is removed when the port has been handed over.
ShutdownPortLate(name) ==
  LET s == Successor([Objects[name] EXCEPT !.port.connected = FALSE]) IN
  /\ Defined
  /\ Connected(port[name])
  /\ Become([Objects EXCEPT ![name] = s])
  /\ lock' = IF s.port = None THEN lock ELSE [lock EXCEPT ![s.port.dev] = "free"]
  /\ UNCHANGED <<config_num, monitor, config, leaked, counters>>

\* shutdown_port: the session ends, for whatever reason.
ShutdownPort(name) ==
  /\ Defined
  /\ Connected(port[name])
  /\ lock' = [lock EXCEPT ![port[name].dev] = "free"]
  /\ Become([Objects EXCEPT ![name] =
               Successor([Objects[name] EXCEPT !.port.connected = FALSE])])
  /\ UNCHANGED <<config_num, monitor, config, leaked, counters>>

\* setportenable at the control port
SetPortEnable(name, state) ==
  /\ Defined
  /\ port[name] # None
  /\ enables < MaxEnables
  /\ \E fails \in BOOLEAN :
       LET s == ChangePortState(Objects[name], state, fails) IN
       Become([Objects EXCEPT ![name] =
         [s EXCEPT !.port.tuned = TRUE,
                   !.odd = @ \cup IF state = "off" THEN {"off"} ELSE {}]])
  /\ enables' = enables + 1
  /\ UNCHANGED <<config_num, lock, monitor, config, leaked, restarts>>
-----------------------------------------------------------------------------
(***************************************************************************)
(* A controller that monitors a port.  The port knows the controller by    *)
(* tcp_monitor or dev_monitor, the controller the port by its address.     *)
(***************************************************************************)
DataMonitorStart(name) ==
  /\ Defined
  /\ monitor = <<>>
  /\ port[name] # None /\ port[name].monitor = "none"
  /\ monitor' = <<name, port[name].number>>
  /\ \E which \in {"tcp", "dev"} : port' = [port EXCEPT ![name].monitor = which]
  /\ UNCHANGED <<new_config, accepting, undefined, odd, config_num, lock, config,
                 leaked, counters>>

\* data_monitor_stop, by the command or because the controller goes, writes
\* to the port it was given once.
DataMonitorStop ==
  /\ Defined
  /\ monitor # <<>>
  /\ LET name == monitor[1]
         alive == port[name].number = monitor[2] IN
     /\ port' = IF alive THEN [port EXCEPT ![name].monitor = "none"] ELSE port
     /\ undefined' = IF alive THEN undefined ELSE "monitor"
  /\ monitor' = <<>>
  /\ UNCHANGED <<new_config, accepting, odd, config_num, lock, config, leaked, counters>>

\* Data of the device are copied to dev_monitor (handle_dev_fd_read), which was
\* never set.
MonitorData(name) ==
  /\ Defined
  /\ Connected(port[name])
  /\ port[name].monitor = "wild"
  /\ undefined' = "wild"
  /\ UNCHANGED <<port, new_config, accepting, odd, config_num, lock, monitor, config,
                 leaked, counters>>
-----------------------------------------------------------------------------
\* Another program locks a device, with the same protocol, or lets go of it.
OtherProgram(d) ==
  /\ Defined
  /\ \/ lock[d] = "free" /\ lock' = [lock EXCEPT ![d] = "other"]
     \/ lock[d] = "other" /\ \E l \in {"free", "dead"} : lock' = [lock EXCEPT ![d] = l]
  /\ UNCHANGED <<objects, config_num, monitor, config, leaked, counters>>

\* The program is killed and started again; its lock files stay.
Restart ==
  /\ Defined
  /\ restarts < MaxRestarts
  /\ restarts' = restarts + 1
  /\ \E cfg \in Configs : Read(NoObjects, cfg, 1)
  /\ lock' = [d \in Devices |-> IF lock[d] = "us" THEN "dead" ELSE lock[d]]
  /\ monitor' = <<>> /\ leaked' = {}
  /\ UNCHANGED enables

Next ==
  \/ Reload
  \/ \E name \in Names : HandleAccept(name) \/ ShutdownPort(name)
                         \/ DataMonitorStart(name) \/ MonitorData(name)
  \/ \E name \in Names, state \in States : SetPortEnable(name, state)
  \/ DataMonitorStop
  \/ \E d \in Devices : OtherProgram(d)
  \/ Restart

Spec == Init /\ [][Next]_vars
-----------------------------------------------------------------------------
\* No two sessions have the same device, whatever is configured and
\* reconfigured meanwhile, and a device in use is locked by this program
\* (handle_accept_port_read, uucp_mk_lock, shutdown_port).  A lock of ours
\* without a session is one that a failed USB look-up left.
DevicesExclusive ==
  /\ \A m, n \in Names : m # n /\ Connected(port[m]) /\ Connected(port[n])
                         => port[m].dev # port[n].dev
  /\ \A d \in Devices :
       /\ (\E n \in Names : Connected(port[n]) /\ port[n].dev = d) => lock[d] = "us"
       /\ lock[d] = "us" /\ d \notin leaked
            => \E n \in Names : Connected(port[n]) /\ port[n].dev = d

\* What the file said last is what a port does when nobody uses it: it has
\* the device and the state, and its socket when it is on; a port in use, and
\* no other, has it waiting, or is marked to go.  Excepted are states set at the control
\* port and ports that could not be bound (portconfig, clear_old_port_config,
\* shutdown_port).
ConfigFollowed ==
  Defined => \A n \in Names :
    LET p == port[n]
        waiting == new_config[n] # None
        will == IF waiting THEN new_config[n] ELSE p IN
    /\ waiting => Connected(p)
    /\ p # None /\ p.config_num # -1 =>
         /\ n \in DOMAIN config
         /\ will.dev = config[n].dev
         /\ waiting \/ p.tuned \/ p.enabled = config[n].state
    /\ p # None /\ p.config_num = -1 => p.connected /\ n \notin DOMAIN config
    /\ n \in DOMAIN config /\ "unbound" \notin odd =>
         /\ p # None
         /\ p.enabled # "off" => accepting[n] = p.number /\ p.acceptfd = "open"

\* Who knows a port by its address knows one that is in the list: the accept
\* handler (sel_set_fd_handlers in portconfig and shutdown_port), unless a port
\* was turned off, which may keep its socket, or configured twice while in use.
\* And a port that was given a monitor (data_monitor_start) has one that is
\* still connected (data_monitor_stop in shutdown_controller); a dev_monitor
\* that nothing ever set ("wild") or that outlived its port ("stale") is left out.
PointersFollowPorts ==
  /\ Defined /\ odd \cap {"off", "twice"} = {} =>
       \A n \in Names : accepting[n] # 0 => port[n].number = accepting[n]
  /\ \A n \in Names : port[n] # None /\ port[n].monitor \in {"tcp", "dev"}
                      => monitor = <<n, port[n].number>>

\* Reading the file, shutting ports down and letting go of a monitor uses no
\* freed port and no descriptor that is not the port's own, as long as no port
\* is turned off, cannot be bound, is configured twice during one session, or
\* goes while it is monitored.  What is left is the use of a dev_monitor that
\* init_port_data does not set.
SafeIfPlain == odd = {} => undefined \in {"no", "wild"}

\* A session keeps its port_info and its device until it is shut down, which
\* frees the device: neither reading the file nor setportenable at the control
\* port replaces or ends a port in use (portconfig, clear_old_port_config,
\* change_port_state).  Its command disconnect is a shutdown_port.
SessionKeepsPort ==
  [][restarts' = restarts =>
       \A n \in Names : Connected(port[n]) =>
         \/ /\ Connected(port'[n])
            /\ port'[n].number = port[n].number /\ port'[n].dev = port[n].dev
         \/ /\ ~Connected(port'[n])
            /\ config_num' = config_num /\ enables' = enables
            /\ lock'[port[n].dev] = "free"]_vars

\* "If an inuse port is changed or deleted, the actual change will not occur
\* until the port is disconnected": reading the file (portconfig,
\* clear_old_port_config) leaves the state of a port in use alone.
ReloadWaits ==
  [][config_num' > config_num =>
       \A n \in Names : Connected(port[n]) =>
         Connected(port'[n]) /\ port'[n].enabled = port[n].enabled]_vars
=============================================================================
