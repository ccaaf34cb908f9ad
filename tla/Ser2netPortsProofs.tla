------------------------- MODULE Ser2netPortsProofs -------------------------
(***************************************************************************)
(* The serial server's ports: sessions and their devices, the objects that *)
(* handlers know by address, and the configuration, for any names, any     *)
(* devices, any configuration files read any number of times.              *)
(***************************************************************************)
EXTENDS Ser2netPorts, TLAPS

\* A port_info, one that waits as new_config, and the objects of a name.
PortInfo ==
  [number : Nat \ {0}, dev : Devices, enabled : {"off", "raw", "telnet"},
   acceptfd : {"none", "open", "closed"}, config_num : Int,
   connected : BOOLEAN, monitor : {"none", "tcp", "dev", "wild"},
   tuned : BOOLEAN]

Unused(p) == p.connected = FALSE /\ p.monitor \in {"none", "wild"}

Waiting == {p \in PortInfo : Unused(p)}

Undefined == {"no", "acceptfd", "freed", "monitor"}
Oddities == {"unbound", "off", "twice", "orphan"}

Objs ==
  [port : PortInfo \cup {None}, new_config : Waiting \cup {None},
   accepting : Nat, undefined : Undefined, odd : SUBSET Oddities]

ObjectTypes ==
  /\ port \in [Names -> PortInfo \cup {None}]
  /\ new_config \in [Names -> Waiting \cup {None}]
  /\ accepting \in [Names -> Nat]
  /\ undefined \in Undefined \cup {"wild"} /\ odd \in SUBSET Oddities

PortTypes ==
  /\ ObjectTypes
  /\ config_num \in Nat
  /\ lock \in [Devices -> {"free", "us", "other", "dead"}]
  /\ leaked \subseteq Devices
  /\ monitor = <<>> \/ monitor \in Names \X (Nat \ {0})

\* A port's monitor is the controller's.
Monitored(p, n, mon) ==
  p # None /\ p.monitor \in {"tcp", "dev"} => mon = <<n, p.number>>

\* As long as no port was turned off or configured twice: the ports are on
\* and a bound socket is the listed port's.
Settled(s) ==
  s.undefined = "no" /\ s.odd \cap {"off", "twice"} = {} =>
    /\ s.port # None => s.port.enabled # "off"
    /\ s.new_config # None => s.new_config.enabled # "off"
    /\ s.accepting # 0 => s.port.number = s.accepting /\ s.port.acceptfd = "open"

\* The port of a line, now or when its session ends.
AsConfigured(p, line) == p.dev = line.dev /\ (p.tuned \/ p.enabled = line.state)

Follows(s, n, cfg, num) ==
  LET p == s.port
      q == s.new_config IN
  s.undefined = "no" =>
    /\ q # None => Connected(p)
    /\ p # None /\ p.config_num # -1 =>
         /\ p.config_num = num /\ n \in DOMAIN cfg
         /\ q = None => AsConfigured(p, cfg[n])
         /\ q # None => /\ q.dev = cfg[n].dev /\ q.enabled = cfg[n].state
                        /\ q.config_num = num
    /\ p # None /\ p.config_num = -1 => p.connected /\ n \notin DOMAIN cfg
    /\ "unbound" \notin s.odd =>
         /\ n \in DOMAIN cfg => p # None
         /\ p # None /\ p.enabled # "off" =>
              s.accepting = p.number /\ p.acceptfd = "open"

\* As long as nothing odd happened: every port has its socket, and a
\* controller's port is there.
Plain(s, n, mon) ==
  LET p == s.port
      q == s.new_config IN
  s.odd = {} =>
    /\ s.undefined = "no"
    /\ p # None => /\ p.enabled # "off" /\ p.acceptfd = "open"
                   /\ s.accepting = p.number
    /\ p = None => s.accepting = 0
    /\ q # None => q.enabled # "off"
    /\ mon # <<>> /\ mon[1] = n =>
         /\ p # None /\ p.number = mon[2] /\ p.monitor \in {"tcp", "dev"}

NameInv(s, n, cfg, num, mon) ==
  /\ s \in Objs
  /\ Monitored(s.port, n, mon)
  /\ Settled(s)
  /\ Follows(s, n, cfg, num)
  /\ Plain(s, n, mon)

\* The objects as they are, or as they were when a wild dev_monitor was used,
\* where the program stops.
Held == IF undefined = "wild" THEN "no" ELSE undefined

Seen ==
  [n \in Names |-> [port |-> port[n], new_config |-> new_config[n],
                    accepting |-> accepting[n], undefined |-> Held, odd |-> odd]]

PortInv ==
  /\ PortTypes
  /\ \A n \in Names : NameInv(Seen[n], n, config, config_num, monitor)
-----------------------------------------------------------------------------
(***************************************************************************)
(* What the operators do to the objects of a name.                         *)
(***************************************************************************)
\* q is p but for its state and its socket.
Same(q, p) ==
  /\ q \in PortInfo
  /\ q.number = p.number /\ q.dev = p.dev /\ q.config_num = p.config_num
  /\ q.connected = p.connected /\ q.monitor = p.monitor /\ q.tuned = p.tuned

\* The odd things of s are in t, and t is not defined if s is not.
Grows(s, t) == s.odd \subseteq t.odd /\ (t.undefined = "no" => s.undefined = "no")

\* A port is not the mark of a missing one.
LEMMA InfoNotNone == ASSUME NEW p \in PortInfo PROVE p # None
BY DEF PortInfo, None

\* sel_set_fd_handlers
LEMMA SetAcceptHandlersIs ==
  ASSUME NEW s \in Objs, NEW p \in PortInfo
  PROVE  LET t == SetAcceptHandlers(s, p) IN
         /\ t \in Objs /\ t.port = s.port /\ t.new_config = s.new_config
         /\ t.odd = s.odd
         /\ p.acceptfd = "open" => t.accepting = p.number /\ t.undefined = s.undefined
         /\ p.acceptfd # "open" => t.accepting = s.accepting /\ t.undefined = "acceptfd"
BY DEF SetAcceptHandlers, Objs, PortInfo, Undefined

\* startup_port
LEMMA StartupPortIs ==
  ASSUME NEW s \in Objs, NEW p \in PortInfo, NEW fails \in BOOLEAN
  PROVE  LET t == StartupPort(s, p, fails) IN
         /\ t \in Objs /\ Same(t.port, p) /\ t.port.enabled = p.enabled
         /\ t.new_config = s.new_config /\ t.undefined = s.undefined
         /\ s.odd \subseteq t.odd
         /\ fails \/ s.accepting # 0 =>
              /\ t.accepting = s.accepting /\ "unbound" \in t.odd
              /\ t.odd = s.odd \cup {"unbound"}
         /\ ~fails /\ s.accepting = 0 =>
              /\ t.accepting = p.number /\ t.port.acceptfd = "open"
              /\ t.odd = s.odd
<1>1. CASE fails \/ s.accepting # 0
  <2>1. StartupPort(s, p, fails) =
          [s EXCEPT !.port = [p EXCEPT !.acceptfd = "closed"],
                    !.odd = @ \cup {"unbound"}]
    BY <1>1 DEF StartupPort
  <2>2. [p EXCEPT !.acceptfd = "closed"] \in PortInfo
    BY DEF PortInfo
  <2>3. Same([p EXCEPT !.acceptfd = "closed"], p)
        /\ [p EXCEPT !.acceptfd = "closed"].enabled = p.enabled
    BY <2>2 DEF PortInfo, Same
  <2>4. QED
    BY <1>1, <2>1, <2>2, <2>3 DEF Objs, Oddities
<1>2. CASE ~fails /\ s.accepting = 0
  <2>1. StartupPort(s, p, fails) =
          [s EXCEPT !.port = [p EXCEPT !.acceptfd = "open"], !.accepting = p.number]
    BY <1>2 DEF StartupPort
  <2>2. [p EXCEPT !.acceptfd = "open"] \in PortInfo /\ p.number \in Nat
    BY DEF PortInfo
  <2>3. Same([p EXCEPT !.acceptfd = "open"], p)
        /\ [p EXCEPT !.acceptfd = "open"].enabled = p.enabled
        /\ [p EXCEPT !.acceptfd = "open"].acceptfd = "open"
    BY <2>2 DEF PortInfo, Same
  <2>4. QED
    BY <1>2, <2>1, <2>2, <2>3 DEF Objs
<1>3. QED
  BY <1>1, <1>2

\* change_port_state that turns a port on, or from one mode to another
LEMMA PortTurnedOn ==
  ASSUME NEW s \in Objs, s.port \in PortInfo, NEW state \in {"raw", "telnet"},
         NEW fails \in BOOLEAN, s.port.enabled # state
  PROVE  LET t == ChangePortState(s, state, fails) IN
         /\ t \in Objs /\ Same(t.port, s.port) /\ t.port.enabled = state
         /\ t.new_config = s.new_config /\ t.undefined = s.undefined
         /\ s.odd \subseteq t.odd
         /\ s.port.enabled # "off" =>
              /\ t.accepting = s.accepting /\ t.port.acceptfd = s.port.acceptfd
              /\ t.odd = s.odd
         /\ s.port.enabled = "off" =>
              \/ "unbound" \in t.odd /\ t.accepting = s.accepting
              \/ t.accepting = t.port.number /\ t.port.acceptfd = "open"
<1>1. state # "off" /\ state \in {"off", "raw", "telnet"}
  OBVIOUS
<1>2. CASE s.port.enabled # "off"
  <2>1. ChangePortState(s, state, fails) = [s EXCEPT !.port.enabled = state]
    BY <1>1, <1>2 DEF ChangePortState
  <2>2. [s EXCEPT !.port.enabled = state]
          = [s EXCEPT !.port = [s.port EXCEPT !.enabled = state]]
    BY DEF Objs
  <2>3. [s.port EXCEPT !.enabled = state] \in PortInfo
        /\ Same([s.port EXCEPT !.enabled = state], s.port)
        /\ [s.port EXCEPT !.enabled = state].enabled = state
        /\ [s.port EXCEPT !.enabled = state].acceptfd = s.port.acceptfd
    BY <1>1 DEF PortInfo, Same
  <2>4. QED
    BY <1>2, <2>1, <2>2, <2>3 DEF Objs
<1>3. CASE s.port.enabled = "off"
  <2>1. PICK u : u = StartupPort(s, s.port, fails)
    OBVIOUS
  <2>2. ChangePortState(s, state, fails) = [u EXCEPT !.port.enabled = state]
    BY <1>1, <1>3, <2>1 DEF ChangePortState
  <2>3. /\ u \in Objs /\ Same(u.port, s.port)
        /\ u.new_config = s.new_config /\ u.undefined = s.undefined
        /\ s.odd \subseteq u.odd
        /\ \/ "unbound" \in u.odd /\ u.accepting = s.accepting
           \/ u.accepting = s.port.number /\ u.port.acceptfd = "open"
    BY <2>1, StartupPortIs DEF Objs
  <2>4. [u EXCEPT !.port.enabled = state]
          = [u EXCEPT !.port = [u.port EXCEPT !.enabled = state]]
    BY <2>3 DEF Objs
  <2>5. u.port \in PortInfo
    BY <2>3 DEF Same
  <2>6. [u.port EXCEPT !.enabled = state] \in PortInfo
        /\ Same([u.port EXCEPT !.enabled = state], s.port)
        /\ [u.port EXCEPT !.enabled = state].enabled = state
        /\ [u.port EXCEPT !.enabled = state].acceptfd = u.port.acceptfd
        /\ [u.port EXCEPT !.enabled = state].number = s.port.number
    BY <1>1, <2>3, <2>5 DEF PortInfo, Same
  <2>7. QED
    BY <1>3, <2>2, <2>3, <2>4, <2>6 DEF Objs
<1>4. QED
  BY <1>2, <1>3

\* change_port_state that turns a port off
LEMMA PortTurnedOff ==
  ASSUME NEW s \in Objs, s.port \in PortInfo, NEW fails \in BOOLEAN,
         s.port.enabled # "off"
  PROVE  LET t == ChangePortState(s, "off", fails) IN
         /\ t \in Objs /\ Same(t.port, s.port)
         /\ t.port.enabled = "off" /\ t.port.acceptfd = "none"
         /\ t.new_config = s.new_config /\ t.odd = s.odd
         /\ t.accepting = IF s.port.acceptfd = "open" THEN 0 ELSE s.accepting
         /\ t.undefined = IF s.port.acceptfd = "closed" THEN "acceptfd" ELSE s.undefined
<1>1. PICK k : k = [s.port EXCEPT !.enabled = "off", !.acceptfd = "none"]
  OBVIOUS
<1>2. PICK a : a = IF s.port.acceptfd = "open" THEN 0 ELSE s.accepting
  OBVIOUS
<1>3. PICK u : u = IF s.port.acceptfd = "closed" THEN "acceptfd" ELSE s.undefined
  OBVIOUS
<1>4. ChangePortState(s, "off", fails) =
        [s EXCEPT !.port = k, !.accepting = a, !.undefined = u]
  BY <1>1, <1>2, <1>3 DEF ChangePortState, Objs
<1>5. /\ k \in PortInfo /\ Same(k, s.port)
      /\ k.enabled = "off" /\ k.acceptfd = "none"
  BY <1>1 DEF PortInfo, Same
<1>6. a \in Nat /\ u \in Undefined
  BY <1>2, <1>3 DEF Objs, Undefined
<1>7. [s EXCEPT !.port = k, !.accepting = a, !.undefined = u] \in Objs
  BY <1>5, <1>6 DEF Objs
<1>8. QED
  BY <1>2, <1>3, <1>4, <1>5, <1>7 DEF Objs

\* change_port_state to the state that a port has
LEMMA PortLeft ==
  ASSUME NEW s, NEW fails
  PROVE  ChangePortState(s, s.port.enabled, fails) = s
BY DEF ChangePortState

\* The port's monitor pointers are given up.
LEMMA FreedIs ==
  ASSUME NEW s \in Objs, NEW p \in PortInfo
  PROVE  LET t == Freed(s, p) IN
         /\ t \in Objs /\ t.port = s.port /\ t.new_config = s.new_config
         /\ t.accepting = s.accepting /\ t.undefined = s.undefined
         /\ s.odd \subseteq t.odd
         /\ p.monitor \in {"tcp", "dev"} => "orphan" \in t.odd
BY DEF Freed, Objs, Oddities

\* free_port
LEMMA FreePortIs ==
  ASSUME NEW s \in Objs, s.port \in PortInfo
  PROVE  LET t == FreePort(s) IN
         /\ t \in Objs /\ t.port = None /\ t.new_config = None /\ Grows(s, t)
         /\ s.port.monitor \in {"tcp", "dev"} => "orphan" \in t.odd
         /\ s.port.enabled # "off" /\ s.port.acceptfd = "open" =>
              t.accepting = 0 /\ t.undefined = s.undefined
         /\ s.port.enabled # "off" /\ s.port.acceptfd # "open" =>
              t.accepting = s.accepting
<1>1. PICK u : u = Freed(s, s.port)
  OBVIOUS
<1>2. /\ u \in Objs /\ u.port = s.port /\ u.port \in PortInfo
      /\ u.accepting = s.accepting /\ u.undefined = s.undefined
      /\ s.odd \subseteq u.odd
      /\ s.port.monitor \in {"tcp", "dev"} => "orphan" \in u.odd
  BY <1>1, FreedIs
<1>3. PICK v : v = ChangePortState(u, "off", FALSE)
  OBVIOUS
<1>4. FreePort(s) = [v EXCEPT !.port = None, !.new_config = None]
  BY <1>1, <1>3 DEF FreePort
<1>5. /\ v \in Objs /\ v.odd = u.odd
      /\ v.undefined = "no" => u.undefined = "no"
      /\ s.port.enabled # "off" /\ s.port.acceptfd = "open" =>
              v.accepting = 0 /\ v.undefined = s.undefined
      /\ s.port.enabled # "off" /\ s.port.acceptfd # "open" =>
              v.accepting = s.accepting
  <2>1. CASE s.port.enabled = "off"
    BY <1>2, <1>3, <2>1, PortLeft
  <2>2. CASE s.port.enabled # "off"
    BY <1>2, <1>3, <2>2, PortTurnedOff
  <2>3. QED
    BY <2>1, <2>2
<1>6. QED
  BY <1>2, <1>4, <1>5 DEF Objs, Grows

\* A port takes over the place and the socket of another.
LEMMA TakeOverIs ==
  ASSUME NEW s \in Objs, s.port \in PortInfo, NEW new \in PortInfo
  PROVE  LET t == TakeOver(s, new) IN
         /\ t \in Objs /\ Same(t.port, new) /\ t.port.enabled = new.enabled
         /\ t.port.acceptfd = s.port.acceptfd
         /\ t.new_config = s.new_config /\ Grows(s, t)
         /\ s.port.monitor \in {"tcp", "dev"} => "orphan" \in t.odd
         /\ s.port.acceptfd = "open" =>
              t.accepting = new.number /\ t.undefined = s.undefined
         /\ s.port.acceptfd # "open" => t.undefined = "acceptfd"
<1>1. PICK u : u = Freed(s, s.port)
  OBVIOUS
<1>2. PICK k : k = [new EXCEPT !.acceptfd = s.port.acceptfd]
  OBVIOUS
<1>3. /\ k \in PortInfo /\ Same(k, new) /\ k.enabled = new.enabled
      /\ k.acceptfd = s.port.acceptfd /\ k.number = new.number
  BY <1>2 DEF PortInfo, Same
<1>4. /\ u \in Objs /\ u.new_config = s.new_config /\ u.undefined = s.undefined
      /\ s.odd \subseteq u.odd
      /\ s.port.monitor \in {"tcp", "dev"} => "orphan" \in u.odd
  BY <1>1, FreedIs
<1>5. PICK v : v = SetAcceptHandlers(u, k)
  OBVIOUS
<1>6. /\ v \in Objs /\ v.new_config = u.new_config /\ v.odd = u.odd
      /\ k.acceptfd = "open" => v.accepting = k.number /\ v.undefined = u.undefined
      /\ k.acceptfd # "open" => v.undefined = "acceptfd"
  BY <1>3, <1>4, <1>5, SetAcceptHandlersIs
<1>7. TakeOver(s, new) = [v EXCEPT !.port = k]
  BY <1>1, <1>2, <1>5 DEF TakeOver
<1>8. QED
  BY <1>3, <1>4, <1>6, <1>7 DEF Objs, Grows

\* The port that a line of the file makes.
Fresh(p, line, num) ==
  /\ p \in PortInfo /\ Unused(p)
  /\ p.number = num /\ p.config_num = num
  /\ p.dev = line.dev /\ p.enabled = line.state

\* portconfig: the new port is as its line says.
LEMMA NewPortIs ==
  ASSUME NEW line \in [dev : Devices, state : States], NEW num \in Nat \ {0},
         NEW dirty \in BOOLEAN
  PROVE  Fresh(NewPort(line, num, dirty), line, num)
<1>1. line.dev \in Devices /\ line.state \in {"off", "raw", "telnet"}
  BY PortsAssumption
<1>2. QED
  BY <1>1 DEF NewPort, Fresh, PortInfo, Unused

\* portconfig of a name that is not in the list
LEMMA NewNameIs ==
  ASSUME NEW s \in Objs, s.port = None, NEW new \in PortInfo, NEW fails \in BOOLEAN
  PROVE  LET t == PortConfig(s, new, fails) IN
         /\ t \in Objs /\ t.new_config = s.new_config /\ t.undefined = s.undefined
         /\ s.odd \subseteq t.odd
         /\ \/ t.port = None /\ t.accepting = s.accepting /\ "unbound" \in t.odd
            \/ t.port = new /\ t.accepting = s.accepting /\ new.enabled = "off"
            \/ /\ Same(t.port, new) /\ t.port.enabled = new.enabled
               /\ t.accepting = new.number /\ t.port.acceptfd = "open"
<1>1. CASE new.enabled = "off"
  <2>1. PortConfig(s, new, fails) = [s EXCEPT !.port = new]
    BY <1>1 DEF PortConfig, Connected
  <2>2. QED
    BY <1>1, <2>1 DEF Objs
<1>2. CASE new.enabled # "off" /\ (fails \/ s.accepting # 0)
  <2>1. PortConfig(s, new, fails) = [s EXCEPT !.odd = @ \cup {"unbound"}]
    BY <1>2 DEF PortConfig, Connected
  <2>2. QED
    BY <2>1 DEF Objs, Oddities
<1>3. CASE new.enabled # "off" /\ ~(fails \/ s.accepting # 0)
  <2>1. PortConfig(s, new, fails) = StartupPort(s, new, fails)
    BY <1>3 DEF PortConfig, Connected
  <2>2. QED
    BY <1>3, <2>1, StartupPortIs
<1>4. QED
  BY <1>1, <1>2, <1>3

\* portconfig of a port that nobody uses
IdleConfigured(s, new, t) ==
  /\ t \in Objs /\ Same(t.port, new) /\ t.port.enabled = new.enabled
  /\ t.new_config = s.new_config /\ Grows(s, t)
  /\ s.port.monitor \in {"tcp", "dev"} => "orphan" \in t.odd
  /\ s.port.acceptfd # "open" => t.undefined # "no"
  /\ s.port.acceptfd = "open" /\ new.enabled # "off" =>
       /\ t.undefined = s.undefined
       /\ \/ "unbound" \in t.odd /\ s.port.enabled = "off"
          \/ t.accepting = new.number /\ t.port.acceptfd = "open"

\* portconfig takes over the new port in place of one without a session.
LEMMA IdlePortIs ==
  ASSUME NEW s \in Objs, s.port \in PortInfo, ~Connected(s.port),
         NEW new \in PortInfo, NEW fails \in BOOLEAN
  PROVE  IdleConfigured(s, new, PortConfig(s, new, fails))
<1>1. PICK k : k = [new EXCEPT !.enabled = s.port.enabled]
  OBVIOUS
<1>2. k \in PortInfo /\ Same(k, new) /\ k.enabled = s.port.enabled
      /\ k.number = new.number
  BY <1>1 DEF PortInfo, Same
<1>3. PICK u : u = TakeOver(s, k)
  OBVIOUS
<1>4. /\ u \in Objs /\ Same(u.port, k) /\ u.port.enabled = s.port.enabled
      /\ u.port.acceptfd = s.port.acceptfd
      /\ u.new_config = s.new_config /\ Grows(s, u)
      /\ s.port.monitor \in {"tcp", "dev"} => "orphan" \in u.odd
      /\ s.port.acceptfd = "open" =>
           u.accepting = new.number /\ u.undefined = s.undefined
      /\ s.port.acceptfd # "open" => u.undefined = "acceptfd"
  BY <1>2, <1>3, TakeOverIs
<1>5. Same(u.port, new) /\ u.port \in PortInfo /\ u.port.number = new.number
  BY <1>2, <1>4 DEF Same
<1>6. PortConfig(s, new, fails) = ChangePortState(u, new.enabled, fails)
  BY <1>1, <1>3, InfoNotNone DEF PortConfig, Connected
<1>7. new.enabled \in {"off", "raw", "telnet"}
  BY DEF PortInfo
<1>8. PICK t : t = ChangePortState(u, new.enabled, fails)
  OBVIOUS
<1>9. CASE u.port.enabled = new.enabled
  <2>1. t = u
    BY <1>8, <1>9, PortLeft
  <2>2. QED
    BY <1>4, <1>5, <1>6, <1>8, <1>9, <2>1 DEF IdleConfigured
<1>10. CASE u.port.enabled # new.enabled /\ new.enabled = "off"
  <2>1. /\ t \in Objs /\ Same(t.port, u.port) /\ t.port.enabled = "off"
        /\ t.new_config = u.new_config /\ t.odd = u.odd
        /\ t.undefined = IF u.port.acceptfd = "closed" THEN "acceptfd" ELSE u.undefined
    BY <1>4, <1>5, <1>8, <1>10, PortTurnedOff
  <2>2. Same(t.port, new)
    BY <1>5, <2>1 DEF Same
  <2>3. Grows(s, t) /\ (s.port.acceptfd # "open" => t.undefined # "no")
    BY <1>4, <2>1 DEF Grows
  <2>4. QED
    BY <1>4, <1>6, <1>8, <1>10, <2>1, <2>2, <2>3 DEF IdleConfigured
<1>11. CASE u.port.enabled # new.enabled /\ new.enabled \in {"raw", "telnet"}
  <2>1. /\ t \in Objs /\ Same(t.port, u.port) /\ t.port.enabled = new.enabled
        /\ t.new_config = u.new_config /\ t.undefined = u.undefined
        /\ u.odd \subseteq t.odd
        /\ u.port.enabled # "off" =>
             /\ t.accepting = u.accepting /\ t.port.acceptfd = u.port.acceptfd
        /\ u.port.enabled = "off" =>
             \/ "unbound" \in t.odd
             \/ t.accepting = t.port.number /\ t.port.acceptfd = "open"
    BY <1>4, <1>5, <1>8, <1>11, PortTurnedOn
  <2>2. Same(t.port, new) /\ t.port.number = new.number
    BY <1>5, <2>1 DEF Same
  <2>3. /\ Grows(s, t)
        /\ s.port.monitor \in {"tcp", "dev"} => "orphan" \in t.odd
    BY <1>4, <2>1 DEF Grows
  <2>4. QED
    BY <1>4, <1>6, <1>8, <2>1, <2>2, <2>3 DEF IdleConfigured
<1>12. QED
  BY <1>7, <1>9, <1>10, <1>11

\* portconfig of a port in use
BusyConfigured(s, new, t) ==
  /\ t \in Objs /\ t.port \in PortInfo
  /\ t.port.number = s.port.number /\ t.port.dev = s.port.dev
  /\ t.port.connected = TRUE /\ t.port.monitor = s.port.monitor
  /\ t.port.acceptfd = s.port.acceptfd
  /\ t.port.config_num = new.config_num
  /\ t.new_config = new
  /\ t.accepting = s.accepting /\ t.undefined = s.undefined
  /\ s.odd \subseteq t.odd
  /\ \/ s.new_config = None /\ t.port.enabled = s.port.enabled
     \/ s.new_config # None /\ t.port.enabled = "off" /\ "twice" \in t.odd

\* portconfig keeps the new port for after the session.
LEMMA BusyPortIs ==
  ASSUME NEW s \in Objs, s.port \in PortInfo, Connected(s.port),
         NEW new \in Waiting, NEW fails \in BOOLEAN
  PROVE  BusyConfigured(s, new, PortConfig(s, new, fails))
<1>1. PICK e : e = IF s.new_config # None THEN "off" ELSE s.port.enabled
  OBVIOUS
<1>2. PICK k : k = [s.port EXCEPT !.enabled = e, !.config_num = new.config_num]
  OBVIOUS
<1>3. PICK o : o = s.odd \cup IF s.new_config # None THEN {"twice"} ELSE {}
  OBVIOUS
<1>4. new \in PortInfo /\ s.port.connected = TRUE
  BY DEF Waiting, Connected, PortInfo
<1>5. /\ k \in PortInfo /\ k.number = s.port.number /\ k.dev = s.port.dev
      /\ k.connected = TRUE /\ k.monitor = s.port.monitor
      /\ k.acceptfd = s.port.acceptfd /\ k.config_num = new.config_num
      /\ k.enabled = e
  BY <1>1, <1>2, <1>4 DEF PortInfo
<1>6. o \in SUBSET Oddities /\ s.odd \subseteq o
      /\ (s.new_config # None => "twice" \in o)
  BY <1>3 DEF Objs, Oddities
<1>7. PortConfig(s, new, fails) =
        [s EXCEPT !.port.enabled = IF s.new_config # None THEN "off" ELSE @,
                  !.port.config_num = new.config_num,
                  !.new_config = new,
                  !.odd = @ \cup IF s.new_config # None THEN {"twice"} ELSE {}]
  BY InfoNotNone DEF PortConfig, Connected
<1>8. PortConfig(s, new, fails) = [s EXCEPT !.port = k, !.new_config = new, !.odd = o]
  BY <1>1, <1>2, <1>3, <1>7 DEF Objs, PortInfo
<1>9. [s EXCEPT !.port = k, !.new_config = new, !.odd = o] \in Objs
  BY <1>5, <1>6 DEF Objs
<1>10. QED
  BY <1>1, <1>5, <1>6, <1>8, <1>9 DEF Objs, BusyConfigured
-----------------------------------------------------------------------------
(***************************************************************************)
(* How each operation keeps the invariant of a name.                       *)
(***************************************************************************)
\* The session of a port goes on, or there is none as before.
SameSession(p, q) ==
  /\ Connected(p) <=> Connected(q)
  /\ Connected(p) => q.number = p.number /\ q.dev = p.dev

\* v is t, with what else is odd.
Widens(t, v) ==
  /\ v \in Objs
  /\ v.port = t.port /\ v.new_config = t.new_config /\ v.accepting = t.accepting
  /\ v.undefined = t.undefined /\ t.odd \subseteq v.odd

\* A line of the file
LEMMA LineKeeps ==
  ASSUME NEW n, NEW cfg0, NEW num0, NEW mon, NEW s,
         NameInv(s, n, cfg0, num0, mon), s.undefined = "no",
         NEW cfg, n \in DOMAIN cfg, NEW num \in Nat \ {0},
         NEW new, Fresh(new, cfg[n], num), NEW fails \in BOOLEAN,
         NEW v, Widens(PortConfig(s, new, fails), v),
         cfg[n].state = "off" => "off" \in v.odd
  PROVE  /\ NameInv(v, n, cfg, num, mon)
         /\ SameSession(s.port, v.port)
         /\ v.port = None \/ v.port.config_num = num
<1>0. PICK t : t = PortConfig(s, new, fails)
  OBVIOUS
<1> v \in Objs /\ v.port = t.port /\ v.new_config = t.new_config
    /\ v.accepting = t.accepting /\ v.undefined = t.undefined
    /\ t.odd \subseteq v.odd
  BY <1>0 DEF Widens
<1>1. /\ s \in Objs /\ Monitored(s.port, n, mon) /\ Settled(s)
      /\ Follows(s, n, cfg0, num0) /\ Plain(s, n, mon)
  BY DEF NameInv
<1>2. /\ new \in PortInfo /\ new \in Waiting /\ new.connected = FALSE
      /\ new.monitor \in {"none", "wild"}
      /\ new.number = num /\ new.config_num = num /\ new.dev = cfg[n].dev
      /\ new.enabled = cfg[n].state
  BY DEF Fresh, Waiting, Unused
<1>3. num # -1 /\ num # 0
  OBVIOUS
<1>4. s.port = None \/ s.port \in PortInfo
  BY <1>1 DEF Objs
<1>5. s.new_config = None \/ Connected(s.port)
  BY <1>1 DEF Follows
<1>6. CASE s.port = None
  <2>1. /\ t.new_config = s.new_config /\ t.undefined = s.undefined
        /\ s.odd \subseteq t.odd
        /\ \/ t.port = None /\ t.accepting = s.accepting /\ "unbound" \in t.odd
           \/ t.port = new /\ t.accepting = s.accepting /\ new.enabled = "off"
           \/ /\ Same(t.port, new) /\ t.port.enabled = new.enabled
              /\ t.accepting = new.number /\ t.port.acceptfd = "open"
    BY <1>0, <1>1, <1>2, <1>6, NewNameIs
  <2>2. v.new_config = None /\ v.undefined = "no" /\ s.odd \subseteq v.odd
    BY <1>5, <1>6, <2>1 DEF Connected
  <2>3. s.odd = {} => mon = <<>> \/ mon[1] # n
    BY <1>1, <1>2, <1>6 DEF Plain
  <2>4. CASE t.port = None /\ t.accepting = s.accepting /\ "unbound" \in t.odd
    <3>1. v.port = None /\ v.accepting = s.accepting /\ "unbound" \in v.odd
      BY <2>4
    <3>2. Monitored(v.port, n, mon)
      BY <3>1 DEF Monitored
    <3>3. Settled(v)
      BY <1>1, <1>6, <2>1, <2>2, <3>1 DEF Settled
    <3>4. Follows(v, n, cfg, num)
      BY <2>2, <3>1 DEF Follows
    <3>5. Plain(v, n, mon)
      BY <3>1 DEF Plain
    <3>6. QED
      BY <1>6, <3>1, <3>2, <3>3, <3>4, <3>5 DEF NameInv, SameSession, Connected
  <2>5. CASE t.port = new /\ t.accepting = s.accepting /\ new.enabled = "off"
    <3>1. v.port = new /\ "off" \in v.odd /\ new # None
      BY <1>2, <2>5, InfoNotNone
    <3>2. Monitored(v.port, n, mon)
      BY <1>2, <3>1 DEF Monitored
    <3>3. Settled(v)
      BY <3>1 DEF Settled
    <3>4. Follows(v, n, cfg, num)
      BY <1>2, <1>3, <2>2, <2>5, <3>1 DEF Follows, AsConfigured
    <3>5. Plain(v, n, mon)
      BY <3>1 DEF Plain
    <3>6. QED
      BY <1>2, <1>6, <3>1, <3>2, <3>3, <3>4, <3>5 DEF NameInv, SameSession, Connected
  <2>6. CASE /\ Same(t.port, new) /\ t.port.enabled = new.enabled
             /\ t.accepting = new.number /\ t.port.acceptfd = "open"
    <3>1. /\ v.port \in PortInfo /\ v.port # None /\ v.port.connected = FALSE
          /\ v.port.number = num /\ v.port.config_num = num
          /\ v.port.dev = cfg[n].dev /\ v.port.enabled = cfg[n].state
          /\ v.port.monitor = new.monitor
          /\ v.accepting = num /\ v.port.acceptfd = "open"
      BY <1>2, <2>6, InfoNotNone DEF Same
    <3>2. Monitored(v.port, n, mon)
      BY <1>2, <3>1 DEF Monitored
    <3>3. Settled(v)
      BY <2>2, <3>1 DEF Settled
    <3>4. Follows(v, n, cfg, num)
      BY <1>3, <2>2, <3>1 DEF Follows, AsConfigured
    <3>5. Plain(v, n, mon)
      BY <2>2, <2>3, <3>1 DEF Plain
    <3>6. QED
      BY <1>6, <3>1, <3>2, <3>3, <3>4, <3>5 DEF NameInv, SameSession, Connected
  <2>7. QED
    BY <2>1, <2>4, <2>5, <2>6
<1>7. CASE s.port \in PortInfo /\ ~Connected(s.port)
  <2>1. IdleConfigured(s, new, t)
    BY <1>1, <1>2, <1>7, <1>0, IdlePortIs
  <2>2. ~Connected(s.port) /\ s.port # None
    BY <1>7, InfoNotNone DEF Connected
  <2>3. v.new_config = None /\ s.odd \subseteq v.odd
    BY <1>5, <2>1, <2>2 DEF Grows, IdleConfigured
  <2>4. /\ v.port \in PortInfo /\ v.port # None /\ v.port.connected = FALSE
        /\ v.port.number = num /\ v.port.config_num = num
        /\ v.port.dev = cfg[n].dev /\ v.port.enabled = cfg[n].state
        /\ v.port.monitor = new.monitor
    BY <1>2, <2>1, InfoNotNone DEF Same, IdleConfigured
  <2>5. Monitored(v.port, n, mon)
    BY <1>2, <2>4 DEF Monitored
  <2>6. Settled(v)
    <3>1. SUFFICES ASSUME v.undefined = "no", v.odd \cap {"off", "twice"} = {}
                   PROVE  v.port.enabled # "off" /\ v.accepting = num
                          /\ v.port.acceptfd = "open"
      BY <2>3, <2>4 DEF Settled
    <3>2. cfg[n].state # "off"
      BY <3>1
    <3>3. s.odd \cap {"off", "twice"} = {}
      BY <2>3, <3>1
    <3>4. s.port.enabled # "off" /\ s.port.acceptfd = "open"
      BY <1>1, <2>1, <2>2, <3>1, <3>3 DEF Settled, IdleConfigured
    <3>5. QED
      BY <1>2, <2>1, <2>4, <3>2, <3>4 DEF IdleConfigured
  <2>7. Follows(v, n, cfg, num)
    <3>1. ASSUME v.undefined = "no", "unbound" \notin v.odd, v.port.enabled # "off"
          PROVE  v.accepting = num /\ v.port.acceptfd = "open"
      BY <1>2, <2>1, <2>4, <3>1 DEF IdleConfigured
    <3>2. QED
      BY <1>3, <2>3, <2>4, <3>1 DEF Follows, AsConfigured
  <2>8. Plain(v, n, mon)
    <3>1. SUFFICES ASSUME v.odd = {}
                   PROVE  /\ v.undefined = "no" /\ v.port.enabled # "off"
                          /\ v.port.acceptfd = "open" /\ v.accepting = num
                          /\ mon = <<>> \/ mon[1] # n
      BY <2>3, <2>4 DEF Plain
    <3>2. s.odd = {} /\ cfg[n].state # "off" /\ t.odd = {}
      BY <2>3, <3>1
    <3>3. /\ s.port.enabled # "off" /\ s.port.acceptfd = "open"
          /\ s.port.monitor \notin {"tcp", "dev"}
          /\ mon = <<>> \/ mon[1] # n
      BY <1>1, <2>1, <2>2, <3>2 DEF Plain, IdleConfigured
    <3>4. QED
      BY <1>2, <2>1, <2>4, <3>2, <3>3 DEF IdleConfigured
  <2>9. QED
    BY <2>2, <2>4, <2>5, <2>6, <2>7, <2>8 DEF NameInv, SameSession, Connected
<1>8. CASE s.port \in PortInfo /\ Connected(s.port)
  <2>1. BusyConfigured(s, new, t)
    BY <1>1, <1>2, <1>8, <1>0, BusyPortIs
  <2>2. /\ s.port # None /\ v.port # None /\ new # None
        /\ Connected(s.port) /\ Connected(v.port)
    BY <1>2, <1>8, <2>1, InfoNotNone DEF Connected, BusyConfigured
  <2>3. v.port.config_num = num /\ s.odd \subseteq v.odd /\ v.undefined = "no"
    BY <1>2, <2>1 DEF BusyConfigured
  <2>4. Monitored(v.port, n, mon)
    BY <1>1, <2>1, <2>2 DEF Monitored, BusyConfigured
  <2>5. Settled(v)
    BY <1>1, <1>2, <2>1, <2>2, <2>3 DEF Settled, BusyConfigured
  <2>6. Follows(v, n, cfg, num)
    <3>1. ASSUME "unbound" \notin v.odd, v.port.enabled # "off"
          PROVE  v.accepting = v.port.number /\ v.port.acceptfd = "open"
      BY <1>1, <2>1, <2>2, <2>3, <3>1 DEF Follows, BusyConfigured
    <3>2. QED
      BY <1>2, <1>3, <2>1, <2>2, <2>3, <3>1 DEF Follows, BusyConfigured
  <2>7. Plain(v, n, mon)
    BY <1>1, <1>2, <2>1, <2>2, <2>3 DEF Plain, BusyConfigured
  <2>8. QED
    BY <2>1, <2>2, <2>3, <2>4, <2>5, <2>6, <2>7 DEF NameInv, SameSession, BusyConfigured
<1>9. QED
  BY <1>4, <1>6, <1>7, <1>8

\* A freed port
LEMMA FreedKeeps ==
  ASSUME NEW n, NEW cfg0, NEW num0, NEW mon, NEW s,
         NameInv(s, n, cfg0, num0, mon), s.undefined = "no", s.port \in PortInfo,
         NEW cfg, n \notin DOMAIN cfg, NEW num,
         NEW v \in Objs, v.port = None, v.new_config = None, Grows(s, v),
         s.port.monitor \in {"tcp", "dev"} => "orphan" \in v.odd,
         s.port.enabled # "off" /\ s.port.acceptfd = "open" =>
           v.accepting = 0 /\ v.undefined = s.undefined,
         s.port.enabled # "off" /\ s.port.acceptfd # "open" =>
           v.accepting = s.accepting
  PROVE  NameInv(v, n, cfg, num, mon)
<1>1. Settled(s) /\ Plain(s, n, mon)
  BY DEF NameInv
<1>2. s.port # None
  BY InfoNotNone
<1>3. Monitored(v.port, n, mon)
  BY DEF Monitored
<1>4. Settled(v)
  <2>1. SUFFICES ASSUME v.undefined = "no", v.odd \cap {"off", "twice"} = {}
                 PROVE  v.accepting = 0
    BY DEF Settled
  <2>2. s.odd \cap {"off", "twice"} = {}
    BY <2>1 DEF Grows
  <2>3. /\ s.port.enabled # "off"
        /\ s.accepting # 0 => s.port.acceptfd = "open"
    BY <1>1, <1>2, <2>2 DEF Settled
  <2>4. QED
    BY <2>3
<1>5. Follows(v, n, cfg, num)
  BY DEF Follows
<1>6. Plain(v, n, mon)
  BY <1>1, <1>2 DEF Plain, Grows
<1>7. QED
  BY <1>3, <1>4, <1>5, <1>6 DEF NameInv

\* A name without a line
LEMMA NoLineKeeps ==
  ASSUME NEW n, NEW cfg0, NEW num0 \in Nat, NEW mon, NEW s,
         NameInv(s, n, cfg0, num0, mon), s.undefined = "no",
         NEW cfg, n \notin DOMAIN cfg, NEW num, num = num0 + 1,
         NEW v, Widens(ClearOld(s, num), v)
  PROVE  /\ NameInv(v, n, cfg, num, mon)
         /\ SameSession(s.port, v.port)
<1>0. PICK t : t = ClearOld(s, num)
  OBVIOUS
<1> v \in Objs /\ v.port = t.port /\ v.new_config = t.new_config
    /\ v.accepting = t.accepting /\ v.undefined = t.undefined
    /\ t.odd \subseteq v.odd
  BY <1>0 DEF Widens
<1>1. /\ s \in Objs /\ Monitored(s.port, n, mon) /\ Settled(s)
      /\ Follows(s, n, cfg0, num0) /\ Plain(s, n, mon)
  BY DEF NameInv
<1>2. s.port = None \/ s.port \in PortInfo
  BY <1>1 DEF Objs
<1>3. num # num0 /\ num # -1
  OBVIOUS
<1>4. CASE s.port = None
  <2>1. t = s
    BY <1>0, <1>4 DEF ClearOld
  <2>2. v.new_config = None /\ v.port = None
    BY <1>1, <1>4, <2>1 DEF Follows, Connected
  <2>3. Settled(v)
    BY <1>1, <1>4, <2>1, <2>2 DEF Settled
  <2>4. Plain(v, n, mon)
    BY <1>1, <1>4, <2>1, <2>2 DEF Plain
  <2>5. QED
    BY <1>4, <2>2, <2>3, <2>4
       DEF NameInv, SameSession, Connected, Monitored, Follows
<1>5. CASE s.port \in PortInfo
  <2>1. s.port # None /\ s.port.config_num # num /\ s.port.config_num \in Int
    BY <1>1, <1>3, <1>5, InfoNotNone DEF Follows, PortInfo
  <2>2. CASE ~Connected(s.port)
    <3>1. t = FreePort(s)
      BY <1>0, <2>1, <2>2 DEF ClearOld, Connected
    <3>2. /\ t.port = None /\ t.new_config = None /\ Grows(s, t)
          /\ s.port.monitor \in {"tcp", "dev"} => "orphan" \in t.odd
          /\ s.port.enabled # "off" /\ s.port.acceptfd = "open" =>
               t.accepting = 0 /\ t.undefined = s.undefined
          /\ s.port.enabled # "off" /\ s.port.acceptfd # "open" =>
               t.accepting = s.accepting
      BY <1>1, <1>5, <3>1, FreePortIs
    <3>3. Grows(s, v)
      BY <3>2 DEF Grows
    <3>4. NameInv(v, n, cfg, num, mon)
      BY <1>5, <3>2, <3>3, FreedKeeps
    <3>5. QED
      BY <2>2, <3>2, <3>4 DEF SameSession, Connected
  <2>3. CASE Connected(s.port)
    <3>1. t = [s EXCEPT !.port.config_num = -1]
      BY <1>0, <2>1, <2>3 DEF ClearOld, Connected
    <3>2. PICK k : k = [s.port EXCEPT !.config_num = -1]
      OBVIOUS
    <3>3. /\ k \in PortInfo /\ k.config_num = -1 /\ k.number = s.port.number
          /\ k.dev = s.port.dev /\ k.enabled = s.port.enabled
          /\ k.acceptfd = s.port.acceptfd /\ k.monitor = s.port.monitor
          /\ k.connected = s.port.connected
      BY <1>5, <3>2 DEF PortInfo
    <3>4. t.port = k /\ t.new_config = s.new_config /\ t.odd = s.odd
          /\ t.accepting = s.accepting /\ t.undefined = s.undefined
      BY <1>1, <3>1, <3>2 DEF Objs
    <3>5. k # None /\ Connected(k) /\ k.connected
      BY <2>3, <3>3, InfoNotNone DEF Connected
    <3>6. v.port = k /\ v.new_config = s.new_config /\ s.odd \subseteq v.odd
          /\ v.accepting = s.accepting /\ v.undefined = s.undefined
      BY <3>4
    <3>7. Monitored(v.port, n, mon)
      BY <1>1, <2>1, <3>3, <3>6 DEF Monitored
    <3>8. Settled(v)
      BY <1>1, <2>1, <3>3, <3>6 DEF Settled
    <3>9. Follows(v, n, cfg, num)
      BY <1>1, <2>1, <3>3, <3>5, <3>6 DEF Follows
    <3>10. Plain(v, n, mon)
      BY <1>1, <2>1, <3>3, <3>5, <3>6 DEF Plain
    <3>11. SameSession(s.port, v.port)
      BY <2>3, <3>3, <3>5, <3>6 DEF SameSession
    <3>12. QED
      BY <3>7, <3>8, <3>9, <3>10, <3>11 DEF NameInv
  <2>4. QED
    BY <2>2, <2>3
<1>6. QED
  BY <1>2, <1>4, <1>5

\* The end of a session: the port goes, hands over, or stays.
LEMMA SuccessorKeeps ==
  ASSUME NEW n, NEW cfg, NEW num \in Nat, NEW mon, NEW s0,
         NameInv(s0, n, cfg, num, mon), s0.undefined = "no", Connected(s0.port),
         NEW v, v = Successor([s0 EXCEPT !.port.connected = FALSE])
  PROVE  NameInv(v, n, cfg, num, mon) /\ ~Connected(v.port) /\ s0.odd \subseteq v.odd
<1>1. /\ s0 \in Objs /\ Monitored(s0.port, n, mon) /\ Settled(s0)
      /\ Follows(s0, n, cfg, num) /\ Plain(s0, n, mon)
  BY DEF NameInv
<1>2. s0.port # None /\ s0.port \in PortInfo
  BY <1>1 DEF Objs, Connected
<1>3. PICK k : k = [s0.port EXCEPT !.connected = FALSE]
  OBVIOUS
<1>4. /\ k \in PortInfo /\ k.config_num = s0.port.config_num
      /\ k.number = s0.port.number /\ k.dev = s0.port.dev
      /\ k.enabled = s0.port.enabled /\ k.acceptfd = s0.port.acceptfd
      /\ k.monitor = s0.port.monitor /\ k.tuned = s0.port.tuned
      /\ k.connected = FALSE /\ k # None
  BY <1>2, <1>3, InfoNotNone DEF PortInfo
<1>5. PICK s : s = [s0 EXCEPT !.port = k]
  OBVIOUS
<1>6. [s0 EXCEPT !.port.connected = FALSE] = s
  BY <1>1, <1>3, <1>5 DEF Objs
<1>7. /\ s \in Objs /\ s.port = k /\ s.new_config = s0.new_config /\ s.odd = s0.odd
      /\ s.accepting = s0.accepting /\ s.undefined = "no"
  BY <1>1, <1>4, <1>5 DEF Objs
<1>8. CASE k.config_num = -1
  <2>1. v = FreePort(s)
    BY <1>6, <1>7, <1>8 DEF Successor
  <2>2. /\ v \in Objs /\ v.port = None /\ v.new_config = None /\ Grows(s, v)
        /\ k.monitor \in {"tcp", "dev"} => "orphan" \in v.odd
        /\ k.enabled # "off" /\ k.acceptfd = "open" =>
             v.accepting = 0 /\ v.undefined = s.undefined
        /\ k.enabled # "off" /\ k.acceptfd # "open" =>
             v.accepting = s.accepting
    BY <1>4, <1>7, <2>1, FreePortIs
  <2>3. Grows(s0, v)
    BY <1>7, <2>2 DEF Grows
  <2>4. n \notin DOMAIN cfg
    BY <1>1, <1>2, <1>4, <1>8 DEF Follows
  <2>5. NameInv(v, n, cfg, num, mon)
    BY <1>2, <1>4, <1>7, <2>2, <2>3, <2>4, FreedKeeps
  <2>6. QED
    BY <2>2, <2>3, <2>5 DEF Connected, Grows
<1>9. CASE k.config_num # -1 /\ s.new_config # None
  <2>1. PICK q : q = s.new_config
    OBVIOUS
  <2>2. /\ q \in PortInfo /\ q.connected = FALSE /\ q.monitor \in {"none", "wild"}
        /\ q # None
    BY <1>7, <1>9, <2>1 DEF Objs, Waiting, Unused
  <2>3. /\ q.dev = cfg[n].dev /\ q.enabled = cfg[n].state /\ q.config_num = num
        /\ n \in DOMAIN cfg
    BY <1>1, <1>2, <1>4, <1>7, <1>9, <2>1 DEF Follows
  <2>4. PICK u : u = TakeOver(s, q)
    OBVIOUS
  <2>5. /\ u \in Objs /\ Same(u.port, q) /\ u.port.enabled = q.enabled
        /\ u.port.acceptfd = k.acceptfd /\ Grows(s, u)
        /\ k.monitor \in {"tcp", "dev"} => "orphan" \in u.odd
        /\ k.acceptfd = "open" => u.accepting = q.number /\ u.undefined = s.undefined
        /\ k.acceptfd # "open" => u.undefined = "acceptfd"
    BY <1>4, <1>7, <2>2, <2>4, TakeOverIs
  <2>6. v = [u EXCEPT !.new_config = None]
    BY <1>6, <1>7, <1>9, <2>1, <2>4 DEF Successor
  <2>7. /\ v \in Objs /\ v.port = u.port /\ v.new_config = None
        /\ v.accepting = u.accepting /\ v.undefined = u.undefined /\ v.odd = u.odd
    BY <2>5, <2>6 DEF Objs
  <2>8. /\ v.port \in PortInfo /\ v.port # None /\ v.port.connected = FALSE
        /\ v.port.number = q.number /\ v.port.config_num = num
        /\ v.port.dev = cfg[n].dev /\ v.port.enabled = cfg[n].state
        /\ v.port.monitor = q.monitor /\ q.number \in Nat \ {0}
    BY <2>2, <2>3, <2>5, <2>7, InfoNotNone DEF Same, PortInfo
  <2>9. s0.odd \subseteq v.odd
    BY <1>7, <2>5, <2>7 DEF Grows
  <2>10. v.undefined = "no" => v.accepting = q.number /\ v.port.acceptfd = "open"
    BY <2>5, <2>7
  <2>11. Monitored(v.port, n, mon)
    BY <2>2, <2>8 DEF Monitored
  <2>12. Settled(v)
    <3>1. ASSUME v.odd \cap {"off", "twice"} = {} PROVE q.enabled # "off"
      BY <1>1, <1>7, <2>1, <2>2, <2>9, <3>1 DEF Settled
    <3>2. QED
      BY <2>3, <2>7, <2>8, <2>10, <3>1 DEF Settled
  <2>13. Follows(v, n, cfg, num)
    BY <2>3, <2>7, <2>8, <2>10 DEF Follows, AsConfigured
  <2>14. Plain(v, n, mon)
    <3>1. SUFFICES ASSUME v.odd = {}
                   PROVE  /\ v.undefined = "no" /\ q.enabled # "off"
                          /\ mon = <<>> \/ mon[1] # n
      BY <2>3, <2>7, <2>8, <2>10 DEF Plain
    <3>2. s0.odd = {} /\ k.monitor \notin {"tcp", "dev"}
      BY <2>5, <2>7, <2>9, <3>1
    <3>3. /\ k.acceptfd = "open" /\ q.enabled # "off"
          /\ mon = <<>> \/ mon[1] # n
      BY <1>1, <1>2, <1>4, <1>7, <2>1, <2>2, <3>2 DEF Plain
    <3>4. QED
      BY <1>7, <2>5, <2>7, <3>3
  <2>15. QED
    BY <2>7, <2>8, <2>9, <2>11, <2>12, <2>13, <2>14 DEF NameInv, Connected
<1>10. CASE k.config_num # -1 /\ s.new_config = None
  <2>1. v = s
    BY <1>6, <1>7, <1>10 DEF Successor
  <2>2. Monitored(v.port, n, mon)
    BY <1>1, <1>2, <1>4, <1>7, <2>1 DEF Monitored
  <2>3. Settled(v)
    BY <1>1, <1>2, <1>4, <1>7, <2>1 DEF Settled
  <2>4. Follows(v, n, cfg, num)
    BY <1>1, <1>2, <1>4, <1>7, <1>10, <2>1 DEF Follows, AsConfigured
  <2>5. Plain(v, n, mon)
    BY <1>1, <1>2, <1>4, <1>7, <2>1 DEF Plain
  <2>6. QED
    BY <1>4, <1>7, <2>1, <2>2, <2>3, <2>4, <2>5 DEF NameInv, Connected
<1>11. QED
  BY <1>8, <1>9, <1>10

\* setportenable
EnableSet(s, state, fails) ==
  [ChangePortState(s, state, fails)
     EXCEPT !.port.tuned = TRUE,
            !.odd = @ \cup IF state = "off" THEN {"off"} ELSE {}]

\* setportenable
LEMMA EnableKeeps ==
  ASSUME NEW n, NEW cfg, NEW num, NEW mon, NEW s,
         NameInv(s, n, cfg, num, mon), s.undefined = "no", s.port # None,
         NEW state \in States, NEW fails \in BOOLEAN,
         NEW v, v = EnableSet(s, state, fails)
  PROVE  /\ NameInv(v, n, cfg, num, mon) /\ SameSession(s.port, v.port)
         /\ s.odd \subseteq v.odd
<1>0. PICK t : t = ChangePortState(s, state, fails)
  OBVIOUS
<1>1. /\ s \in Objs /\ Monitored(s.port, n, mon) /\ Settled(s)
      /\ Follows(s, n, cfg, num) /\ Plain(s, n, mon)
  BY DEF NameInv
<1>2. s.port \in PortInfo
  BY <1>1 DEF Objs
<1>3. state \in {"off", "raw", "telnet"}
  BY PortsAssumption
<1>4. /\ t \in Objs /\ Same(t.port, s.port) /\ t.port.enabled = state
      /\ t.new_config = s.new_config /\ Grows(s, t)
      /\ state # "off" =>
           /\ t.undefined = s.undefined
           /\ s.port.enabled # "off" => /\ t.accepting = s.accepting
                                        /\ t.port.acceptfd = s.port.acceptfd
           /\ s.port.enabled = "off" =>
                \/ "unbound" \in t.odd
                \/ t.accepting = t.port.number /\ t.port.acceptfd = "open"
  <2>1. CASE s.port.enabled = state
    <3>1. t = s
      BY <1>0, <2>1, PortLeft
    <3>2. QED
      BY <1>1, <1>2, <2>1, <3>1 DEF Same, Grows
  <2>2. CASE s.port.enabled # state /\ state = "off"
    BY <1>0, <1>1, <1>2, <2>2, PortTurnedOff DEF Grows
  <2>3. CASE s.port.enabled # state /\ state \in {"raw", "telnet"}
    BY <1>0, <1>1, <1>2, <2>3, PortTurnedOn DEF Grows
  <2>4. QED
    BY <1>3, <2>1, <2>2, <2>3
<1>5. PICK k : k = [t.port EXCEPT !.tuned = TRUE]
  OBVIOUS
<1>6. PICK o : o = t.odd \cup IF state = "off" THEN {"off"} ELSE {}
  OBVIOUS
<1>7. t.port \in PortInfo
  BY <1>4 DEF Same
<1>8. /\ k \in PortInfo /\ k # None /\ k.number = s.port.number
      /\ k.dev = s.port.dev /\ k.config_num = s.port.config_num
      /\ k.connected = s.port.connected /\ k.monitor = s.port.monitor
      /\ k.enabled = state /\ k.acceptfd = t.port.acceptfd /\ k.tuned = TRUE
      /\ t.port.number = s.port.number
  BY <1>4, <1>5, <1>7, InfoNotNone DEF PortInfo, Same
<1>9. /\ o \in SUBSET Oddities /\ s.odd \subseteq o /\ t.odd \subseteq o
      /\ state = "off" => "off" \in o
  BY <1>4, <1>6 DEF Objs, Oddities, Grows
<1>10. v = [t EXCEPT !.port = k, !.odd = o]
  BY <1>0, <1>4, <1>5, <1>6 DEF Objs, EnableSet
<1>11. /\ v \in Objs /\ v.port = k /\ v.odd = o /\ v.new_config = s.new_config
       /\ v.accepting = t.accepting /\ v.undefined = t.undefined
  BY <1>4, <1>8, <1>9, <1>10 DEF Objs
<1>12. Monitored(v.port, n, mon)
  BY <1>1, <1>8, <1>11 DEF Monitored
<1>13. Settled(v)
  <2>1. SUFFICES ASSUME v.odd \cap {"off", "twice"} = {}
                 PROVE  /\ k.enabled # "off"
                        /\ v.new_config # None => v.new_config.enabled # "off"
                        /\ v.accepting # 0 =>
                             k.number = v.accepting /\ k.acceptfd = "open"
    BY <1>11 DEF Settled
  <2>2. state # "off" /\ s.odd \cap {"off", "twice"} = {}
    BY <1>9, <1>11, <2>1
  <2>3. /\ s.port.enabled # "off"
        /\ s.new_config # None => s.new_config.enabled # "off"
        /\ s.accepting # 0 => s.port.number = s.accepting /\ s.port.acceptfd = "open"
    BY <1>1, <2>2 DEF Settled
  <2>4. QED
    BY <1>4, <1>8, <1>11, <2>2, <2>3
<1>14. Follows(v, n, cfg, num)
  <2>1. ASSUME "unbound" \notin v.odd, k.enabled # "off"
        PROVE  v.accepting = k.number /\ k.acceptfd = "open"
    <3>1. state # "off" /\ "unbound" \notin s.odd /\ "unbound" \notin t.odd
      BY <1>8, <1>9, <1>11, <2>1
    <3>2. s.port.enabled # "off" =>
            s.accepting = s.port.number /\ s.port.acceptfd = "open"
      BY <1>1, <3>1 DEF Follows
    <3>3. QED
      BY <1>4, <1>8, <1>11, <3>1, <3>2
  <2>2. Connected(s.port) => Connected(k)
    BY <1>8 DEF Connected
  <2>3. /\ s.new_config # None => Connected(k)
        /\ k.config_num # -1 =>
             /\ k.config_num = num /\ n \in DOMAIN cfg
             /\ s.new_config = None => k.dev = cfg[n].dev
             /\ s.new_config # None =>
                  /\ s.new_config.dev = cfg[n].dev
                  /\ s.new_config.enabled = cfg[n].state
                  /\ s.new_config.config_num = num
        /\ k.config_num = -1 => k.connected /\ n \notin DOMAIN cfg
    BY <1>1, <1>8, <2>2 DEF Follows, AsConfigured
  <2>4. QED
    BY <1>8, <1>11, <2>1, <2>3 DEF Follows, AsConfigured
<1>15. Plain(v, n, mon)
  <2>1. SUFFICES ASSUME v.odd = {} PROVE Plain(v, n, mon)
    BY DEF Plain
  <2>2. state # "off" /\ s.odd = {}
    BY <1>9, <1>11, <2>1
  <2>3. /\ s.port.enabled # "off" /\ s.port.acceptfd = "open"
        /\ s.accepting = s.port.number
        /\ s.new_config # None => s.new_config.enabled # "off"
        /\ mon # <<>> /\ mon[1] = n =>
             s.port.number = mon[2] /\ s.port.monitor \in {"tcp", "dev"}
    BY <1>1, <2>2 DEF Plain
  <2>4. v.accepting = k.number /\ k.acceptfd = "open" /\ v.undefined = "no"
    BY <1>4, <1>8, <1>11, <2>2, <2>3
  <2>5. QED
    BY <1>8, <1>11, <2>2, <2>3, <2>4 DEF Plain
<1>16. QED
  BY <1>8, <1>9, <1>11, <1>12, <1>13, <1>14, <1>15 DEF NameInv, SameSession, Connected

\* What is odd or undefined elsewhere weakens the invariant of a name.
LEMMA ElsewhereKeeps ==
  ASSUME NEW n, NEW cfg, NEW num, NEW mon, NEW s, NameInv(s, n, cfg, num, mon),
         NEW v \in Objs, v.port = s.port, v.new_config = s.new_config,
         v.accepting = s.accepting, Grows(s, v), v.odd = {} => v.undefined = "no"
  PROVE  NameInv(v, n, cfg, num, mon)
<1>1. /\ Monitored(s.port, n, mon) /\ Settled(s)
      /\ Follows(s, n, cfg, num) /\ Plain(s, n, mon)
      /\ s.odd \subseteq v.odd /\ (v.undefined = "no" => s.undefined = "no")
  BY DEF NameInv, Grows
<1>2. Settled(v)
  BY <1>1 DEF Settled
<1>3. Follows(v, n, cfg, num)
  BY <1>1 DEF Follows
<1>4. Plain(v, n, mon)
  BY <1>1 DEF Plain
<1>5. QED
  BY <1>1, <1>2, <1>3, <1>4 DEF NameInv

\* The objects of all names together
LEMMA BecomeKeeps ==
  ASSUME NEW f, \A n \in Names : f[n] \in Objs, Become(f)
  PROVE  /\ ObjectTypes'
         /\ \A n \in Names : port'[n] = f[n].port
         /\ \A n \in Names : \A cfg, num, mon :
              /\ \A m \in Names : f[m].odd = {} => f[m].undefined = "no"
              /\ NameInv(f[n], n, cfg, num, mon)
              => NameInv(Seen'[n], n, cfg, num, mon)
<1>1. /\ port' = [n \in Names |-> f[n].port]
      /\ new_config' = [n \in Names |-> f[n].new_config]
      /\ accepting' = [n \in Names |-> f[n].accepting]
      /\ undefined' = IF \A n \in Names : f[n].undefined = "no" THEN "no" ELSE "acceptfd"
      /\ odd' = UNION {f[n].odd : n \in Names}
  BY DEF Become
<1>2. undefined' \in Undefined /\ undefined' # "wild" /\ Held' = undefined'
  BY <1>1 DEF Undefined, Held
<1>3. odd' \in SUBSET Oddities
  BY <1>1 DEF Objs
<1>4. ASSUME NEW n \in Names
      PROVE  /\ Seen'[n] \in Objs
             /\ Seen'[n].port = f[n].port
             /\ Seen'[n].new_config = f[n].new_config
             /\ Seen'[n].accepting = f[n].accepting
             /\ Seen'[n].undefined = undefined' /\ Seen'[n].odd = odd'
  <2>1. Seen'[n] = [port |-> f[n].port, new_config |-> f[n].new_config,
                       accepting |-> f[n].accepting,
                       undefined |-> undefined', odd |-> odd']
    BY <1>1, <1>2, <1>4 DEF Seen
  <2>2. f[n] \in Objs
    BY <1>4
  <2>3. QED
    BY <1>2, <1>3, <2>1, <2>2 DEF Objs
<1>5. /\ port' \in [Names -> PortInfo \cup {None}]
      /\ new_config' \in [Names -> Waiting \cup {None}]
      /\ accepting' \in [Names -> Nat]
  BY <1>1 DEF Objs
<1>6. \A n \in Names : f[n].odd \subseteq odd'
  BY <1>1
<1>7. undefined' = "no" => \A n \in Names : f[n].undefined = "no"
  BY <1>1
<1>8. ASSUME NEW n \in Names, NEW cfg, NEW num, NEW mon,
             \A m \in Names : f[m].odd = {} => f[m].undefined = "no",
             NameInv(f[n], n, cfg, num, mon)
      PROVE  NameInv(Seen'[n], n, cfg, num, mon)
  <2>1. Grows(f[n], Seen'[n])
    BY <1>4, <1>6, <1>7 DEF Grows
  <2>2. ASSUME odd' = {} PROVE undefined' = "no"
    <3>1. \A m \in Names : f[m].odd = {}
      BY <1>6, <2>2
    <3>2. \A m \in Names : f[m].undefined = "no"
      BY <1>8, <3>1
    <3>3. QED
      BY <1>1, <3>2
  <2>3. QED
    BY <1>4, <1>8, <2>1, <2>2, ElsewhereKeeps
<1>9. \A n \in Names : port'[n] = f[n].port
  BY <1>1
<1>10. QED
  BY <1>2, <1>3, <1>5, <1>8, <1>9, Zenon DEF ObjectTypes

\* The objects of a name are typed, and what they are.
LEMMA ObjectsAre ==
  ASSUME PortTypes, NEW n \in Names
  PROVE  /\ Seen[n] \in Objs
         /\ Seen[n].port = port[n] /\ Seen[n].new_config = new_config[n]
         /\ Seen[n].accepting = accepting[n]
         /\ Seen[n].undefined = Held /\ Seen[n].odd = odd
<1>1. Seen[n] = [port |-> port[n], new_config |-> new_config[n],
                 accepting |-> accepting[n], undefined |-> Held, odd |-> odd]
  BY DEF Seen
<1>2. Held \in Undefined
  BY DEF PortTypes, ObjectTypes, Held, Undefined
<1>3. QED
  BY <1>1, <1>2 DEF PortTypes, ObjectTypes, Objs

\* The program goes on: the objects are what they are seen as.
LEMMA SeenObjects ==
  ASSUME Defined
  PROVE  undefined = "no" /\ Held = "no" /\ Seen = Objects
BY DEF Defined, Held, Seen, Objects

\* A configuration has lines of its names.
LEMMA ConfigLines ==
  ASSUME NEW cfg \in Configs, NEW n \in DOMAIN cfg
  PROVE  n \in Names /\ cfg[n] \in [dev : Devices, state : States]
<1>1. PICK S \in SUBSET Names :
        /\ cfg \in [S -> UNION {Lines[m] : m \in S}]
        /\ \A m \in S : cfg[m] \in Lines[m]
  BY DEF Configs
<1>2. QED
  BY <1>1, PortsAssumption

\* portconfig and clear_old_port_config keep the types.
LEMMA LineTyped ==
  ASSUME NEW s \in Objs, NEW line, NEW num, NEW new, Fresh(new, line, num),
         NEW fails \in BOOLEAN
  PROVE  PortConfig(s, new, fails) \in Objs
<1>1. new \in PortInfo /\ new \in Waiting
  BY DEF Fresh, Waiting
<1>2. CASE s.port = None
  BY <1>1, <1>2, NewNameIs
<1>3. CASE s.port \in PortInfo /\ ~Connected(s.port)
  BY <1>1, <1>3, IdlePortIs DEF IdleConfigured
<1>4. CASE s.port \in PortInfo /\ Connected(s.port)
  BY <1>1, <1>4, BusyPortIs DEF BusyConfigured
<1>5. QED
  BY <1>2, <1>3, <1>4 DEF Objs

\* clear_old_port_config: types
LEMMA ClearOldTyped ==
  ASSUME NEW s \in Objs, NEW num
  PROVE  ClearOld(s, num) \in Objs
<1>1. CASE s.port = None \/ s.port.config_num = num
  BY <1>1 DEF ClearOld
<1>2. CASE s.port # None /\ s.port.config_num # num /\ ~s.port.connected
  <2>1. s.port \in PortInfo
    BY <1>2 DEF Objs
  <2>2. ClearOld(s, num) = FreePort(s)
    BY <1>2 DEF ClearOld
  <2>3. QED
    BY <2>1, <2>2, FreePortIs
<1>3. CASE s.port # None /\ s.port.config_num # num /\ s.port.connected
  <2>1. s.port \in PortInfo
    BY <1>3 DEF Objs
  <2>2. PICK k : k = [s.port EXCEPT !.config_num = -1]
    OBVIOUS
  <2>3. k \in PortInfo
    BY <2>1, <2>2 DEF PortInfo
  <2>4. ClearOld(s, num) = [s EXCEPT !.port = k]
    BY <1>3, <2>2 DEF ClearOld, Objs
  <2>5. QED
    BY <2>3, <2>4 DEF Objs
<1>4. QED
  BY <1>1, <1>2, <1>3

\* The objects f are in order.
InOrder(f, cfg, num, mon) ==
  \A n \in Names : NameInv(f[n], n, cfg, num, mon) /\ f[n].undefined = "no"

\* The file is read, over the objects f.
LEMMA ReadKeeps ==
  ASSUME NEW f, NEW cfg0, NEW num0 \in Nat, NEW mon,
         InOrder(f, cfg0, num0, mon), NEW cfg \in Configs, Read(f, cfg, num0 + 1)
  PROVE  /\ ObjectTypes' /\ config' = cfg /\ config_num' = num0 + 1
         /\ \A n \in Names : /\ NameInv(Seen'[n], n, cfg, num0 + 1, mon)
                             /\ SameSession(f[n].port, port'[n])
<1>1. PICK num : num = num0 + 1
  OBVIOUS
<1>2. num \in Nat \ {0}
  BY <1>1
<1> PICK fails \in SUBSET DOMAIN cfg, dirty \in SUBSET (DirtyNames \cap DOMAIN cfg) :
         Become([n \in Names |-> [ReadConfig(f, cfg, num, fails, dirty)[n]
                                    EXCEPT !.odd = @ \cup Off(cfg)]])
  BY <1>1 DEF Read
<1>3. PICK r : r = ReadConfig(f, cfg, num, fails, dirty)
  OBVIOUS
<1>4. PICK g : g = [n \in Names |-> [r[n] EXCEPT !.odd = @ \cup Off(cfg)]]
  OBVIOUS
<1>5. Become(g) /\ config' = cfg /\ config_num' = num
  BY <1>1, <1>3, <1>4 DEF Read
<1>6. ASSUME NEW n \in Names
      PROVE  /\ g[n] \in Objs /\ NameInv(g[n], n, cfg, num, mon)
             /\ SameSession(f[n].port, g[n].port)
  <2>1. f[n] \in Objs /\ NameInv(f[n], n, cfg0, num0, mon) /\ f[n].undefined = "no"
    BY <1>6 DEF NameInv, InOrder
  <2>2. g[n] = [r[n] EXCEPT !.odd = @ \cup Off(cfg)]
    BY <1>4, <1>6
  <2>3. ASSUME r[n] \in Objs
        PROVE  /\ g[n] \in Objs /\ g[n].port = r[n].port
               /\ g[n].new_config = r[n].new_config
               /\ g[n].accepting = r[n].accepting
               /\ g[n].undefined = r[n].undefined
               /\ g[n].odd = r[n].odd \cup Off(cfg)
    BY <2>2, <2>3 DEF Objs, Off, Oddities
  <2>4. CASE n \in DOMAIN cfg
    <3>1. PICK new : new = NewPort(cfg[n], num, n \in dirty)
      OBVIOUS
    <3>2. cfg[n] \in [dev : Devices, state : States]
      BY <2>4, ConfigLines
    <3>3. (n \in dirty) \in BOOLEAN /\ (n \in fails) \in BOOLEAN
      OBVIOUS
    <3>4. Fresh(new, cfg[n], num)
      BY <1>2, <3>1, <3>2, <3>3, NewPortIs
    <3>6. PICK bad \in BOOLEAN : bad = (n \in fails)
      BY <3>3, Zenon
    <3>7. PICK t : t = PortConfig(f[n], new, bad)
      OBVIOUS
    <3>8. t \in Objs
      BY <2>1, <3>4, <3>7, LineTyped
    <3>9. r[n] = ClearOld(t, num)
      <4>1. r[n] = ClearOld(PortConfig(f[n], new, n \in fails), num)
        BY <1>3, <1>6, <2>4, <3>1 DEF ReadConfig
      <4>2. QED
        BY <3>6, <3>7, <4>1, Zenon
    <3>10. PICK v : v = [t EXCEPT !.odd = @ \cup Off(cfg)]
      OBVIOUS
    <3>11. /\ Widens(PortConfig(f[n], new, bad), v)
           /\ v.port = t.port
           /\ cfg[n].state = "off" => "off" \in v.odd
      BY <2>4, <3>7, <3>8, <3>10 DEF Objs, Off, Oddities, Widens
    <3>12. /\ NameInv(v, n, cfg, num, mon) /\ SameSession(f[n].port, v.port)
           /\ v.port = None \/ v.port.config_num = num
      BY <1>2, <2>1, <2>4, <3>4, <3>11, LineKeeps
    <3>13. r[n] = t
      BY <3>9, <3>11, <3>12 DEF ClearOld
    <3>14. g[n] = v
      BY <2>2, <3>10, <3>13
    <3>15. QED
      BY <3>11, <3>12, <3>14 DEF NameInv
  <2>5. CASE n \notin DOMAIN cfg
    <3>1. r[n] = ClearOld(f[n], num)
      BY <1>3, <1>6, <2>5 DEF ReadConfig
    <3>2. r[n] \in Objs
      BY <2>1, <3>1, ClearOldTyped
    <3>3. Widens(ClearOld(f[n], num), g[n])
      BY <2>3, <3>1, <3>2 DEF Widens
    <3>4. NameInv(g[n], n, cfg, num, mon) /\ SameSession(f[n].port, g[n].port)
      BY <1>1, <2>1, <2>5, <3>3, NoLineKeeps
    <3>5. QED
      BY <2>3, <3>2, <3>4
  <2>6. QED
    BY <2>4, <2>5
<1>7. \A m \in Names : g[m].odd = {} => g[m].undefined = "no"
  BY <1>6 DEF NameInv, Plain
<1>8. /\ \A n \in Names : g[n] \in Objs
      /\ \A n \in Names : NameInv(g[n], n, cfg, num, mon)
  BY <1>6
<1>9. QED
  BY <1>1, <1>5, <1>6, <1>7, <1>8, BecomeKeeps
-----------------------------------------------------------------------------
(***************************************************************************)
(* The steps                                                               *)
(***************************************************************************)
\* Read, on SIGHUP or at a restart, over objects that are in order
LEMMA ReloadKeeps ==
  ASSUME PortInv, Reload
  PROVE  PortInv' /\ \A n \in Names : SameSession(port[n], port'[n])
<1>1. PortTypes /\ Defined /\ config_num \in Nat
  BY DEF PortInv, PortTypes, Reload
<1>2. \A n \in Names : /\ NameInv(Seen[n], n, config, config_num, monitor)
                       /\ Seen[n].undefined = "no" /\ Seen[n].odd = odd
                       /\ Seen[n].port = port[n]
  BY <1>1, ObjectsAre, SeenObjects DEF PortInv
<1>3. PICK cfg \in Configs : Read(Objects, cfg, config_num + 1)
  BY DEF Reload
<1>6. PICK f : f = Objects
  OBVIOUS
<1>7. /\ InOrder(f, config, config_num, monitor)
      /\ \A n \in Names : f[n].port = port[n]
      /\ Read(f, cfg, config_num + 1)
  BY <1>1, <1>2, <1>3, <1>6, SeenObjects DEF InOrder
<1>8. /\ ObjectTypes'
      /\ config' = cfg /\ config_num' = config_num + 1
      /\ \A n \in Names : /\ NameInv(Seen'[n], n, cfg, config_num + 1, monitor)
                          /\ SameSession(f[n].port, port'[n])
  BY <1>1, <1>7, ReadKeeps, Zenon
<1>9. UNCHANGED <<lock, monitor, leaked>>
  BY DEF Reload
<1>10. PortTypes'
  BY <1>1, <1>8, <1>9 DEF PortTypes
<1>11. QED
  BY <1>7, <1>8, <1>9, <1>10 DEF PortInv

\* The ports of a program that just started
LEMMA RestartKeeps ==
  ASSUME PortInv, Restart
  PROVE  PortInv' /\ \A n \in Names : ~Connected(port'[n])
<1>1. PICK cfg \in Configs : Read(NoObjects, cfg, 1)
  BY DEF Restart
<1>2. PICK f, mon : f = NoObjects /\ mon = <<>>
  OBVIOUS
<1>3. ASSUME NEW n \in Names
      PROVE  /\ NameInv(f[n], n, <<>>, 0, mon) /\ f[n].undefined = "no"
             /\ f[n].port = None
  <2>1. PICK s : s = f[n]
    OBVIOUS
  <2>2. /\ s \in Objs /\ s.port = None /\ s.new_config = None /\ s.accepting = 0
        /\ s.undefined = "no" /\ s.odd = {}
    BY <1>2, <1>3, <2>1 DEF NoObjects, Objs, Undefined
  <2>3. n \notin DOMAIN <<>>
    OBVIOUS
  <2>4. NameInv(s, n, <<>>, 0, mon)
    BY <1>2, <2>2, <2>3 DEF NameInv, Monitored, Settled, Follows, Plain
  <2>5. QED
    BY <2>1, <2>2, <2>4
<1>4. Read(f, cfg, 0 + 1)
  BY <1>1, <1>2
<1>5. 0 \in Nat /\ InOrder(f, <<>>, 0, mon)
  BY <1>3 DEF InOrder
<1>6. /\ ObjectTypes'
      /\ config' = cfg /\ config_num' = 0 + 1
      /\ \A n \in Names : /\ NameInv(Seen'[n], n, cfg, 0 + 1, mon)
                          /\ SameSession(f[n].port, port'[n])
  BY <1>4, <1>5, ReadKeeps, Zenon
<1>7. /\ monitor' = <<>> /\ leaked' = {}
      /\ lock' = [d \in Devices |-> IF lock[d] = "us" THEN "dead" ELSE lock[d]]
  BY DEF Restart
<1>8. lock' \in [Devices -> {"free", "us", "other", "dead"}]
  BY <1>7 DEF PortInv, PortTypes
<1>9. PortTypes'
  BY <1>6, <1>7, <1>8 DEF PortTypes
<1>10. \A n \in Names : ~Connected(port'[n])
  BY <1>3, <1>6 DEF SameSession, Connected
<1>11. QED
  BY <1>2, <1>6, <1>7, <1>9, <1>10 DEF PortInv

\* A step that changes the objects of one name and lets the others be
LEMMA OneNameKeeps ==
  ASSUME PortInv, NEW name \in Names, NEW v,
         NameInv(v, name, config, config_num, monitor), odd \subseteq v.odd, Defined,
         Become([Objects EXCEPT ![name] = v]),
         UNCHANGED <<config_num, monitor, config, leaked>>,
         lock' \in [Devices -> {"free", "us", "other", "dead"}]
  PROVE  /\ PortInv' /\ port'[name] = v.port
         /\ \A n \in Names \ {name} : port'[n] = port[n]
<1>1. PortTypes
  BY DEF PortInv
<1>2. PICK f : f = [Objects EXCEPT ![name] = v]
  OBVIOUS
<1>3. \A n \in Names : f[n] = IF n = name THEN v ELSE Seen[n]
  BY <1>2, SeenObjects DEF Objects
<1>4. \A n \in Names : NameInv(f[n], n, config, config_num, monitor)
  BY <1>3 DEF PortInv
<1>5. /\ \A n \in Names : f[n] \in Objs
      /\ \A n \in Names : f[n].odd = {} => f[n].undefined = "no"
  BY <1>4 DEF NameInv, Plain
<1>6. Become(f)
  BY <1>2
<1>7. /\ ObjectTypes'
      /\ \A n \in Names : port'[n] = f[n].port
      /\ \A n \in Names : NameInv(Seen'[n], n, config, config_num, monitor)
  BY <1>4, <1>5, <1>6, BecomeKeeps
<1>8. PortTypes'
  BY <1>1, <1>7 DEF PortTypes
<1>9. \A n \in Names \ {name} : port'[n] = port[n]
  BY <1>1, <1>3, <1>7, ObjectsAre
<1>10. QED
  BY <1>3, <1>7, <1>8, <1>9 DEF PortInv

\* The end of a session
LEMMA ShutdownKeeps ==
  ASSUME PortInv, NEW name \in Names, ShutdownPort(name)
  PROVE  /\ PortInv' /\ ~Connected(port'[name])
         /\ \A n \in Names \ {name} : port'[n] = port[n]
<1>1. PortTypes /\ Defined /\ config_num \in Nat
  BY DEF PortInv, PortTypes, ShutdownPort
<1>2. PICK s : s = Seen[name]
  OBVIOUS
<1>3. /\ s.port = port[name] /\ s.undefined = "no" /\ s.odd = odd
      /\ NameInv(s, name, config, config_num, monitor)
  BY <1>1, <1>2, ObjectsAre, SeenObjects DEF PortInv
<1>4. PICK v : v = Successor([s EXCEPT !.port.connected = FALSE])
  OBVIOUS
<1>5. Connected(s.port)
  BY <1>3 DEF ShutdownPort
<1>6. /\ NameInv(v, name, config, config_num, monitor) /\ ~Connected(v.port)
      /\ odd \subseteq v.odd
  BY <1>1, <1>3, <1>4, <1>5, SuccessorKeeps
<1>7. /\ Become([Objects EXCEPT ![name] = v]) /\ Defined
      /\ UNCHANGED <<config_num, monitor, config, leaked>>
      /\ lock' = [lock EXCEPT ![port[name].dev] = "free"]
  BY <1>1, <1>2, <1>4, SeenObjects DEF ShutdownPort
<1>8. lock' \in [Devices -> {"free", "us", "other", "dead"}]
  BY <1>1, <1>7 DEF PortTypes
<1>9. QED
  BY <1>6, <1>7, <1>8, OneNameKeeps

\* A command of the control port
LEMMA SetEnableKeeps ==
  ASSUME PortInv, NEW name \in Names, NEW state \in States, SetPortEnable(name, state)
  PROVE  PortInv' /\ \A n \in Names : SameSession(port[n], port'[n])
<1>1. PortTypes /\ Defined
  BY DEF PortInv, SetPortEnable
<1>2. PICK s : s = Seen[name]
  OBVIOUS
<1>3. /\ s.port = port[name] /\ s.undefined = "no" /\ s.odd = odd /\ s.port # None
      /\ NameInv(s, name, config, config_num, monitor)
  BY <1>1, <1>2, ObjectsAre, SeenObjects DEF PortInv, SetPortEnable
<1>4. PICK fails \in BOOLEAN :
        Become([Objects EXCEPT ![name] = EnableSet(s, state, fails)])
  BY <1>1, <1>2, SeenObjects DEF SetPortEnable, EnableSet
<1>6. PICK v : v = EnableSet(s, state, fails)
  OBVIOUS
<1>7. /\ NameInv(v, name, config, config_num, monitor)
      /\ SameSession(s.port, v.port) /\ odd \subseteq v.odd
  BY <1>3, <1>6, EnableKeeps
<1>8. /\ Become([Objects EXCEPT ![name] = v]) /\ Defined
      /\ UNCHANGED <<config_num, monitor, config, leaked, lock>>
  BY <1>4, <1>6 DEF SetPortEnable
<1>9. lock' \in [Devices -> {"free", "us", "other", "dead"}]
  BY <1>1, <1>8 DEF PortTypes
<1>10. /\ PortInv' /\ port'[name] = v.port
       /\ \A n \in Names \ {name} : port'[n] = port[n]
  BY <1>7, <1>8, <1>9, OneNameKeeps
<1>11. QED
  BY <1>3, <1>7, <1>10 DEF SameSession

\* The program does something undefined, where the port of name is odd.
LEMMA UndefinedKeeps ==
  ASSUME PortInv, odd # {}, undefined' \in Undefined \ {"no"},
         UNCHANGED <<new_config, accepting, odd, config_num, config, leaked, lock>>,
         port' = port, monitor' = monitor \/ monitor' = <<>>,
         monitor' = <<>> => \A n \in Names : Monitored(port[n], n, <<>>)
  PROVE  PortInv'
<1>1. PortTypes
  BY DEF PortInv
<1>2. PortTypes'
  BY <1>1 DEF PortTypes, ObjectTypes
<1>3. ASSUME NEW n \in Names
      PROVE  NameInv(Seen'[n], n, config', config_num', monitor')
  <2>1. PICK v : v = Seen'[n]
    OBVIOUS
  <2>2. v = [port |-> port[n], new_config |-> new_config[n],
             accepting |-> accepting[n], undefined |-> undefined', odd |-> odd]
    BY <1>3, <2>1 DEF Seen, Held, Undefined
  <2>3. /\ v \in Objs /\ v.port = port[n] /\ v.undefined # "no" /\ v.odd # {}
    BY <1>1, <1>3, <2>2 DEF Objs, PortTypes, ObjectTypes
  <2>4. NameInv(Seen[n], n, config, config_num, monitor) /\ Seen[n].port = port[n]
    BY <1>1, <1>3, ObjectsAre DEF PortInv
  <2>5. Monitored(v.port, n, monitor')
    <3>1. CASE monitor' = monitor
      BY <2>3, <2>4, <3>1 DEF NameInv
    <3>2. CASE monitor' = <<>>
      BY <1>3, <2>3, <3>2
    <3>3. QED
      BY <3>1, <3>2
  <2>6. Settled(v) /\ Follows(v, n, config', config_num') /\ Plain(v, n, monitor')
    BY <2>3 DEF Settled, Follows, Plain
  <2>7. QED
    BY <2>1, <2>3, <2>5, <2>6 DEF NameInv
<1>4. QED
  BY <1>2, <1>3 DEF PortInv

\* A port gets a session or a monitor, or loses its monitor; k is the port then.
LEMMA PortChangeKeeps ==
  ASSUME PortInv, NEW name \in Names, port[name] \in PortInfo, NEW k \in PortInfo,
         port' = [port EXCEPT ![name] = k],
         k.number = port[name].number, k.dev = port[name].dev,
         k.enabled = port[name].enabled, k.acceptfd = port[name].acceptfd,
         k.config_num = port[name].config_num, k.tuned = port[name].tuned,
         port[name].connected => k.connected,
         UNCHANGED <<new_config, accepting, undefined, odd, config_num, config>>,
         leaked' \subseteq Devices,
         lock' \in [Devices -> {"free", "us", "other", "dead"}],
         monitor' = <<>> \/ monitor' \in Names \X (Nat \ {0}),
         \A n \in Names : Monitored(port'[n], n, monitor'),
         Plain(Seen[name], name, monitor) => Plain(Seen'[name], name, monitor'),
         monitor' = monitor \/ monitor' = <<>> \/ monitor'[1] = name
  PROVE  PortInv'
<1>1. PortTypes
  BY DEF PortInv
<1>2. PortTypes'
  BY <1>1 DEF PortTypes, ObjectTypes
<1>3. port'[name] = k
  BY <1>1 DEF PortTypes, ObjectTypes
<1>4. ASSUME NEW n \in Names
      PROVE  NameInv(Seen'[n], n, config', config_num', monitor')
  <2>1. PICK s, v : s = Seen[n] /\ v = Seen'[n]
    OBVIOUS
  <2>2. /\ s \in Objs /\ s.port = port[n] /\ s.new_config = new_config[n]
        /\ s.accepting = accepting[n] /\ s.undefined = Held /\ s.odd = odd
        /\ NameInv(s, n, config, config_num, monitor)
    BY <1>1, <1>4, <2>1, ObjectsAre DEF PortInv
  <2>3. v = [port |-> port'[n], new_config |-> new_config[n],
             accepting |-> accepting[n], undefined |-> Held, odd |-> odd]
    BY <1>4, <2>1 DEF Seen, Held
  <2>4. /\ v \in Objs /\ v.port = port'[n] /\ v.new_config = s.new_config
        /\ v.accepting = s.accepting /\ v.undefined = s.undefined /\ v.odd = s.odd
    BY <1>2, <1>4, <2>2, <2>3 DEF Objs, PortTypes, ObjectTypes
  <2>5. CASE n # name
    <3>1. v.port = s.port
      BY <1>1, <2>2, <2>4, <2>5 DEF PortTypes, ObjectTypes
    <3>2. Settled(v) /\ Follows(v, n, config, config_num)
      BY <2>2, <2>4, <3>1 DEF NameInv, Settled, Follows
    <3>3. Plain(v, n, monitor')
      BY <2>2, <2>4, <2>5, <3>1 DEF NameInv, Plain
    <3>4. QED
      BY <1>4, <2>1, <2>4, <3>2, <3>3 DEF NameInv
  <2>6. CASE n = name
    <3>1. v.port = k /\ s.port = port[name] /\ k # None /\ s.port # None
      BY <1>3, <2>2, <2>4, <2>6, InfoNotNone
    <3>2. Settled(v)
      BY <2>2, <2>4, <3>1 DEF NameInv, Settled
    <3>3. Connected(s.port) => Connected(k)
      BY <3>1 DEF Connected
    <3>4. Follows(v, n, config, config_num)
      BY <2>2, <2>4, <3>1, <3>3 DEF NameInv, Follows, AsConfigured
    <3>5. Plain(v, n, monitor')
      BY <2>1, <2>2, <2>6 DEF NameInv
    <3>6. QED
      BY <1>4, <2>1, <2>4, <3>2, <3>4, <3>5 DEF NameInv
  <2>7. QED
    BY <2>5, <2>6
<1>5. QED
  BY <1>2, <1>4 DEF PortInv

\* setup_tcp_port: the lock is made and the session begins, or not.
LEMMA SetupIs ==
  ASSUME PortTypes, NEW name \in Names, port[name] \in PortInfo, SetupTcpPort(name)
  PROVE  /\ lock' \in [Devices -> {"free", "us", "other", "dead"}]
         /\ leaked' \subseteq Devices
         /\ \A d \in Devices \ {port[name].dev} :
              lock'[d] = lock[d] /\ (d \in leaked' <=> d \in leaked)
         /\ \/ /\ port' = [port EXCEPT ![name].connected = TRUE]
               /\ lock[port[name].dev] # "us" /\ lock'[port[name].dev] = "us"
               /\ leaked' = leaked
            \/ /\ port' = port /\ lock[port[name].dev] # "us"
               /\ lock'[port[name].dev] # "us" \/ port[name].dev \in leaked'
            \/ port' = port /\ lock' = lock /\ leaked' = leaked
<1>1. PICK d : d = port[name].dev
  OBVIOUS
<1>2. d \in Devices
  BY <1>1 DEF PortInfo
<1>3. lock \in [Devices -> {"free", "us", "other", "dead"}] /\ leaked \subseteq Devices
  BY DEF PortTypes
<1>4. PICK l \in MkLock(d) :
        \/ /\ l = "got"
           /\ lock' = [lock EXCEPT ![d] = "us"]
           /\ port' = [port EXCEPT ![name].connected = TRUE]
           /\ UNCHANGED leaked
        \/ /\ l = "got"
           /\ SetupFails(d)
           /\ UNCHANGED port
        \/ /\ l # "got"
           /\ lock' = [lock EXCEPT ![d] = l]
           /\ UNCHANGED <<port, leaked>>
  BY <1>1 DEF SetupTcpPort
<1>5. /\ l = "got" => lock[d] \in {"free", "dead"}
      /\ l # "got" => \/ l = lock[d]
                      \/ l = "other" /\ lock[d] # "us"
  BY <1>2, <1>3, <1>4 DEF MkLock
<1>6. CASE /\ l = "got"
           /\ lock' = [lock EXCEPT ![d] = "us"]
           /\ port' = [port EXCEPT ![name].connected = TRUE]
           /\ UNCHANGED leaked
  BY <1>1, <1>2, <1>3, <1>5, <1>6
<1>7. CASE l = "got" /\ SetupFails(d) /\ UNCHANGED port
  BY <1>1, <1>2, <1>3, <1>5, <1>7 DEF SetupFails
<1>8. CASE /\ l # "got"
           /\ lock' = [lock EXCEPT ![d] = l]
           /\ UNCHANGED <<port, leaked>>
  BY <1>1, <1>2, <1>3, <1>5, <1>8
<1>9. QED
  BY <1>4, <1>6, <1>7, <1>8

\* handle_accept_port_read
LEMMA AcceptKeeps ==
  ASSUME PortInv, NEW name \in Names, HandleAccept(name)
  PROVE  PortInv'
<1>1. PortTypes /\ undefined = "no" /\ accepting[name] # 0
  BY DEF PortInv, HandleAccept, Defined
<1>2. /\ Seen[name].port = port[name] /\ Seen[name].odd = odd
      /\ Seen[name].accepting = accepting[name]
      /\ NameInv(Seen[name], name, config, config_num, monitor)
  BY <1>1, ObjectsAre DEF PortInv
<1>3. CASE port[name].number # accepting[name]
  <2>1. odd # {}
    BY <1>1, <1>2, <1>3 DEF NameInv, Plain
  <2>2. /\ undefined' \in Undefined \ {"no"} /\ port' = port /\ monitor' = monitor
        /\ UNCHANGED <<new_config, accepting, odd, config_num, config, leaked, lock>>
    BY <1>3 DEF HandleAccept, Undefined
  <2>3. \A n \in Names : Monitored(port[n], n, monitor)
    BY <1>1, ObjectsAre DEF PortInv, NameInv
  <2>4. QED
    BY <2>1, <2>2, <2>3, UndefinedKeeps
<1>4. CASE port[name].number = accepting[name]
  <2>1. port[name] # None /\ port[name] \in PortInfo
    BY <1>1, <1>4 DEF None, PortTypes, ObjectTypes
  <2>2. /\ SetupTcpPort(name) /\ ~Connected(port[name])
        /\ UNCHANGED <<new_config, accepting, undefined, odd, config_num, monitor,
                       config>>
    BY <1>4 DEF HandleAccept
  <2>3. /\ lock' \in [Devices -> {"free", "us", "other", "dead"}]
        /\ leaked' \subseteq Devices
        /\ port' = port \/ port' = [port EXCEPT ![name].connected = TRUE]
    BY <1>1, <2>1, <2>2, SetupIs
  <2>4. CASE port' = port
    <3>1. Seen' = Seen
      BY <2>2, <2>4 DEF Seen, Held
    <3>2. PortTypes'
      BY <1>1, <2>2, <2>3, <2>4 DEF PortTypes, ObjectTypes
    <3>3. QED
      BY <2>2, <3>1, <3>2 DEF PortInv
  <2>5. CASE port' = [port EXCEPT ![name].connected = TRUE]
    <3>1. PICK k : k = [port[name] EXCEPT !.connected = TRUE]
      OBVIOUS
    <3>2. /\ k \in PortInfo /\ k.number = port[name].number /\ k.dev = port[name].dev
          /\ k.enabled = port[name].enabled /\ k.acceptfd = port[name].acceptfd
          /\ k.config_num = port[name].config_num /\ k.tuned = port[name].tuned
          /\ k.connected /\ k.monitor = port[name].monitor
      BY <2>1, <3>1 DEF PortInfo
    <3>3. port' = [port EXCEPT ![name] = k]
      BY <1>1, <2>5, <3>1 DEF PortTypes, ObjectTypes
    <3>4. /\ port'[name] = k /\ k # None
          /\ \A n \in Names \ {name} : port'[n] = port[n]
      BY <1>1, <3>2, <3>3, InfoNotNone DEF PortTypes, ObjectTypes
    <3>5. \A n \in Names : Monitored(port[n], n, monitor)
      BY <1>1, ObjectsAre DEF PortInv, NameInv
    <3>6. \A n \in Names : Monitored(port'[n], n, monitor')
      BY <2>1, <2>2, <3>2, <3>4, <3>5 DEF Monitored
    <3>7. Plain(Seen[name], name, monitor) => Plain(Seen'[name], name, monitor')
      <4>1. PICK s, v : s = Seen[name] /\ v = Seen'[name]
        OBVIOUS
      <4>2. /\ s.port = port[name] /\ v.port = k /\ v.new_config = s.new_config
            /\ v.accepting = s.accepting /\ v.undefined = s.undefined
            /\ v.odd = s.odd
        BY <2>2, <3>4, <4>1 DEF Seen, Held
      <4>3. Plain(s, name, monitor) => Plain(v, name, monitor)
        BY <2>1, <3>2, <3>4, <4>2 DEF Plain
      <4>4. QED
        BY <2>2, <4>1, <4>3
    <3>8. monitor' = <<>> \/ monitor' \in Names \X (Nat \ {0})
      BY <1>1, <2>2 DEF PortTypes
    <3>9. QED
      BY <2>1, <2>2, <2>3, <3>2, <3>3, <3>6, <3>7, <3>8, PortChangeKeeps
  <2>6. QED
    BY <2>3, <2>4, <2>5
<1>5. QED
  BY <1>3, <1>4

\* data_monitor_start
LEMMA MonitorStartKeeps ==
  ASSUME PortInv, NEW name \in Names, DataMonitorStart(name)
  PROVE  PortInv' /\ \A n \in Names : SameSession(port[n], port'[n])
<1>1. PortTypes
  BY DEF PortInv
<1>2. /\ monitor = <<>> /\ port[name] # None /\ port[name].monitor = "none"
      /\ monitor' = <<name, port[name].number>>
      /\ UNCHANGED <<new_config, accepting, undefined, odd, config_num, lock, config,
                     leaked>>
  BY DEF DataMonitorStart
<1>3. PICK which \in {"tcp", "dev"} : port' = [port EXCEPT ![name].monitor = which]
  BY DEF DataMonitorStart
<1>4. port[name] \in PortInfo
  BY <1>1, <1>2 DEF PortTypes, ObjectTypes
<1>5. PICK k : k = [port[name] EXCEPT !.monitor = which]
  OBVIOUS
<1>6. /\ k \in PortInfo /\ k.number = port[name].number /\ k.dev = port[name].dev
      /\ k.enabled = port[name].enabled /\ k.acceptfd = port[name].acceptfd
      /\ k.config_num = port[name].config_num /\ k.tuned = port[name].tuned
      /\ k.connected = port[name].connected /\ k.monitor = which
      /\ k.number \in Nat \ {0}
  BY <1>4, <1>5 DEF PortInfo
<1>7. port' = [port EXCEPT ![name] = k]
  BY <1>1, <1>3, <1>5 DEF PortTypes, ObjectTypes
<1>8. /\ port'[name] = k /\ k # None
      /\ \A n \in Names \ {name} : port'[n] = port[n]
  BY <1>1, <1>6, <1>7, InfoNotNone DEF PortTypes, ObjectTypes
<1>9. \A n \in Names : Monitored(port[n], n, <<>>)
  BY <1>1, <1>2, ObjectsAre DEF PortInv, NameInv
<1>10. \A n \in Names : Monitored(port'[n], n, monitor')
  BY <1>2, <1>6, <1>8, <1>9 DEF Monitored
<1>11. Plain(Seen[name], name, monitor) => Plain(Seen'[name], name, monitor')
  <2>1. PICK s, v : s = Seen[name] /\ v = Seen'[name]
    OBVIOUS
  <2>2. /\ s.port = port[name] /\ v.port = k /\ v.new_config = s.new_config
        /\ v.accepting = s.accepting /\ v.undefined = s.undefined
        /\ v.odd = s.odd
    BY <1>2, <1>8, <2>1 DEF Seen, Held
  <2>3. monitor'[2] = k.number
    BY <1>2, <1>6
  <2>4. Plain(s, name, monitor) => Plain(v, name, monitor')
    BY <1>2, <1>6, <1>8, <2>2, <2>3 DEF Plain
  <2>5. QED
    BY <2>1, <2>4
<1>12. monitor' \in Names \X (Nat \ {0}) /\ monitor'[1] = name
  BY <1>2, <1>6
<1>13. /\ leaked' \subseteq Devices
       /\ lock' \in [Devices -> {"free", "us", "other", "dead"}]
  BY <1>1, <1>2 DEF PortTypes
<1>14. PortInv'
  BY <1>2, <1>4, <1>6, <1>7, <1>10, <1>11, <1>12, <1>13, PortChangeKeeps
<1>15. QED
  BY <1>2, <1>6, <1>8, <1>14 DEF SameSession, Connected

\* data_monitor_stop
LEMMA MonitorStopKeeps ==
  ASSUME PortInv, DataMonitorStop
  PROVE  PortInv' /\ \A n \in Names : SameSession(port[n], port'[n])
<1>1. PortTypes /\ undefined = "no"
  BY DEF PortInv, DataMonitorStop, Defined
<1>2. /\ monitor # <<>> /\ monitor' = <<>>
      /\ UNCHANGED <<new_config, accepting, odd, config_num, lock, config, leaked>>
  BY DEF DataMonitorStop
<1>3. PICK name \in Names, num \in Nat \ {0} : monitor = <<name, num>>
  BY <1>1, <1>2 DEF PortTypes
<1>4. \A n \in Names : Monitored(port[n], n, monitor)
  BY <1>1, ObjectsAre DEF PortInv, NameInv
<1>5. monitor[1] = name /\ monitor[2] = num
  BY <1>3
<1>6. /\ Seen[name].port = port[name] /\ Seen[name].odd = odd
      /\ NameInv(Seen[name], name, config, config_num, monitor)
  BY <1>1, ObjectsAre DEF PortInv
<1>7. CASE port[name].number # num
  <2>1. undefined' = "monitor" /\ port' = port
    BY <1>5, <1>7 DEF DataMonitorStop
  <2>2. odd # {}
    BY <1>2, <1>5, <1>6, <1>7 DEF NameInv, Plain
  <2>3. \A n \in Names : Monitored(port[n], n, <<>>)
    BY <1>3, <1>4, <1>7 DEF Monitored
  <2>4. PortInv'
    BY <1>2, <2>1, <2>2, <2>3, UndefinedKeeps DEF Undefined
  <2>5. QED
    BY <2>1, <2>4 DEF SameSession
<1>8. CASE port[name].number = num
  <2>1. UNCHANGED undefined /\ port' = [port EXCEPT ![name].monitor = "none"]
    BY <1>5, <1>8 DEF DataMonitorStop
  <2>2. port[name] # None /\ port[name] \in PortInfo
    BY <1>1, <1>8 DEF None, PortTypes, ObjectTypes
  <2>3. PICK k : k = [port[name] EXCEPT !.monitor = "none"]
    OBVIOUS
  <2>4. /\ k \in PortInfo /\ k.number = port[name].number /\ k.dev = port[name].dev
        /\ k.enabled = port[name].enabled /\ k.acceptfd = port[name].acceptfd
        /\ k.config_num = port[name].config_num /\ k.tuned = port[name].tuned
        /\ k.connected = port[name].connected /\ k.monitor = "none"
    BY <2>2, <2>3 DEF PortInfo
  <2>5. port' = [port EXCEPT ![name] = k]
    BY <1>1, <2>1, <2>3 DEF PortTypes, ObjectTypes
  <2>6. /\ port'[name] = k /\ k # None /\ port[name] # None
        /\ \A n \in Names \ {name} : port'[n] = port[n]
    BY <1>1, <2>2, <2>4, <2>5, InfoNotNone DEF PortTypes, ObjectTypes
  <2>7. \A n \in Names : Monitored(port'[n], n, monitor')
    BY <1>3, <1>4, <2>4, <2>6 DEF Monitored
  <2>8. Plain(Seen[name], name, monitor) => Plain(Seen'[name], name, monitor')
    <3>1. PICK s, v : s = Seen[name] /\ v = Seen'[name]
      OBVIOUS
    <3>2. /\ s.port = port[name] /\ v.port = k /\ v.new_config = s.new_config
          /\ v.accepting = s.accepting /\ v.undefined = s.undefined
          /\ v.odd = s.odd
      BY <1>2, <2>1, <2>6, <3>1 DEF Seen, Held
    <3>3. Plain(s, name, monitor) => Plain(v, name, <<>>)
      BY <2>4, <2>6, <3>2 DEF Plain
    <3>4. QED
      BY <1>2, <3>1, <3>3
  <2>9. /\ leaked' \subseteq Devices
        /\ lock' \in [Devices -> {"free", "us", "other", "dead"}]
    BY <1>1, <1>2 DEF PortTypes
  <2>10. PortInv'
    <3>1. /\ monitor' = <<>> \/ monitor' \in Names \X (Nat \ {0})
          /\ monitor' = monitor \/ monitor' = <<>> \/ monitor'[1] = name
          /\ UNCHANGED <<new_config, accepting, undefined, odd, config_num, config>>
      BY <1>2, <2>1
    <3>2. port[name].connected => k.connected
      BY <2>4
    <3>3. QED
      BY <1>3, <2>2, <2>4, <2>5, <2>7, <2>8, <2>9, <3>1, <3>2, PortChangeKeeps
  <2>11. QED
    BY <2>4, <2>6, <2>10 DEF SameSession, Connected
<1>9. QED
  BY <1>7, <1>8

\* Every step keeps the invariant.
LEMMA PortStep ==
  ASSUME PortInv, [Next]_vars
  PROVE  PortInv'
<1>1. ASSUME UNCHANGED <<objects, config_num, monitor, config, leaked>>,
             lock' \in [Devices -> {"free", "us", "other", "dead"}]
      PROVE  PortInv'
  <2>1. Seen' = Seen
    BY <1>1 DEF objects, Seen, Held
  <2>2. PortTypes'
    BY <1>1 DEF PortInv, PortTypes, ObjectTypes, objects
  <2>3. QED
    BY <1>1, <2>1, <2>2 DEF PortInv
<1>2. CASE Reload
  BY <1>2, ReloadKeeps
<1>3. ASSUME NEW name \in Names, HandleAccept(name) PROVE PortInv'
  BY <1>3, AcceptKeeps
<1>4. ASSUME NEW name \in Names, ShutdownPort(name) PROVE PortInv'
  BY <1>4, ShutdownKeeps
<1>5. ASSUME NEW name \in Names, DataMonitorStart(name) PROVE PortInv'
  BY <1>5, MonitorStartKeeps
<1>6. ASSUME NEW name \in Names, MonitorData(name) PROVE PortInv'
  <2>1. PortTypes
    BY DEF PortInv
  <2>2. /\ undefined = "no" /\ undefined' = "wild"
        /\ UNCHANGED <<port, new_config, accepting, odd, config_num, monitor,
                       config, leaked, lock>>
    BY <1>6 DEF MonitorData, Defined
  <2>3. Seen' = Seen
    BY <2>2 DEF Seen, Held
  <2>4. PortTypes'
    BY <2>1, <2>2 DEF PortTypes, ObjectTypes
  <2>5. QED
    BY <2>2, <2>3, <2>4 DEF PortInv
<1>7. ASSUME NEW name \in Names, NEW state \in States, SetPortEnable(name, state)
      PROVE  PortInv'
  BY <1>7, SetEnableKeeps
<1>8. CASE DataMonitorStop
  BY <1>8, MonitorStopKeeps
<1>9. ASSUME NEW d \in Devices, OtherProgram(d) PROVE PortInv'
  <2>1. lock' \in [Devices -> {"free", "us", "other", "dead"}]
    BY <1>9 DEF OtherProgram, PortInv, PortTypes
  <2>2. QED
    BY <1>1, <1>9, <2>1 DEF OtherProgram
<1>10. CASE Restart
  BY <1>10, RestartKeeps
<1>11. CASE UNCHANGED vars
  BY <1>1, <1>11 DEF vars, PortInv, PortTypes
<1>12. QED
  BY <1>2, <1>3, <1>4, <1>5, <1>6, <1>7, <1>8, <1>9, <1>10, <1>11 DEF Next

\* The initial states
LEMMA PortInit == Init => PortInv
<1> SUFFICES ASSUME Init PROVE PortInv
  OBVIOUS
<1>1. PortTypes
  BY DEF Init, PortTypes, ObjectTypes, Undefined
<1>2. ASSUME NEW n \in Names
      PROVE  NameInv(Seen[n], n, config, config_num, monitor)
  <2>1. PICK s : s = Seen[n]
    OBVIOUS
  <2>2. /\ s \in Objs /\ s.port = None /\ s.new_config = None /\ s.accepting = 0
        /\ s.undefined = "no" /\ s.odd = {}
    BY <1>1, <1>2, <2>1, ObjectsAre DEF Init, Held
  <2>3. monitor = <<>> /\ n \notin DOMAIN config
    BY DEF Init
  <2>4. NameInv(s, n, config, config_num, monitor)
    BY <2>2, <2>3 DEF NameInv, Monitored, Settled, Follows, Plain
  <2>5. QED
    BY <2>1, <2>4
<1>3. QED
  BY <1>1, <1>2 DEF PortInv

\* The invariant of the ports: their types, who knows them by address, what
\* they do with the configuration, and that nothing undefined happens before
\* something odd does, but for the use of a dev_monitor that was never set.
THEOREM PortsCorrect == Spec => []PortInv
BY PortInit, PortStep, PTL DEF Spec

\* The accept handler and a controller that monitors know ports by address:
\* for any names and devices and any number of reloads, the handler's is in the
\* list unless a port was turned off or configured twice during a session, and
\* a port's monitor is connected.
THEOREM PointersCorrect == Spec => []PointersFollowPorts
<1>1. PortInv => PointersFollowPorts
  <2> SUFFICES ASSUME PortInv PROVE PointersFollowPorts
    OBVIOUS
  <2>1. PortTypes
    BY DEF PortInv
  <2>2. ASSUME NEW n \in Names
        PROVE  /\ Monitored(port[n], n, monitor) /\ Settled(Seen[n])
               /\ Seen[n].port = port[n] /\ Seen[n].accepting = accepting[n]
               /\ Defined => Seen[n].undefined = "no"
               /\ Seen[n].odd = odd
    BY <2>1, <2>2, ObjectsAre DEF PortInv, NameInv, Held, Defined
  <2>3. QED
    BY <2>2 DEF PointersFollowPorts, Monitored, Settled, Defined
<1>2. QED
  BY <1>1, PortsCorrect, PTL

\* The file is followed: a port does what the last file said when nobody uses
\* it, and what it will do is known while it is in use.
THEOREM ConfigCorrect == Spec => []ConfigFollowed
<1>1. PortInv => ConfigFollowed
  <2> SUFFICES ASSUME PortInv, undefined = "no", NEW n \in Names
               PROVE  LET p == port[n]
                          waiting == new_config[n] # None
                          will == IF waiting THEN new_config[n] ELSE p IN
                      /\ waiting => Connected(p)
                      /\ p # None /\ p.config_num # -1 =>
                           /\ n \in DOMAIN config
                           /\ will.dev = config[n].dev
                           /\ waiting \/ p.tuned \/ p.enabled = config[n].state
                      /\ p # None /\ p.config_num = -1 =>
                           p.connected /\ n \notin DOMAIN config
                      /\ n \in DOMAIN config /\ "unbound" \notin odd =>
                           /\ p # None
                           /\ p.enabled # "off" =>
                                accepting[n] = p.number /\ p.acceptfd = "open"
    BY DEF ConfigFollowed, Defined
  <2>1. PortTypes
    BY DEF PortInv
  <2>2. /\ Follows(Seen[n], n, config, config_num)
        /\ Seen[n].port = port[n] /\ Seen[n].new_config = new_config[n]
        /\ Seen[n].accepting = accepting[n]
        /\ Seen[n].undefined = "no" /\ Seen[n].odd = odd
    BY <2>1, ObjectsAre DEF PortInv, NameInv, Held
  <2>3. QED
    BY <2>2 DEF Follows, AsConfigured
<1>2. QED
  BY <1>1, PortsCorrect, PTL

\* With no names at all nothing is undefined.
LEMMA NoNames ==
  ASSUME Names = {}, PortTypes, undefined = "no", [Next]_vars
  PROVE  undefined' = "no"
<1>1. ASSUME NEW objs, Become(objs) PROVE undefined' = "no"
  BY <1>1 DEF Become
<1>2. CASE Reload
  <2>1. PICK cfg : Read(Objects, cfg, config_num + 1)
    BY <1>2 DEF Reload
  <2>2. QED
    BY <1>1, <2>1 DEF Read
<1>3. CASE Restart
  <2>1. PICK cfg : Read(NoObjects, cfg, 1)
    BY <1>3 DEF Restart
  <2>2. QED
    BY <1>1, <2>1 DEF Read
<1>4. CASE DataMonitorStop
  BY <1>4 DEF DataMonitorStop, PortTypes
<1>5. ASSUME NEW d \in Devices, OtherProgram(d) PROVE undefined' = "no"
  BY <1>5 DEF OtherProgram, objects
<1>6. CASE UNCHANGED vars
  BY <1>6 DEF vars, objects
<1>7. QED
  BY <1>2, <1>3, <1>4, <1>5, <1>6 DEF Next

\* Without the four odd things the program never uses a freed port or a closed
\* descriptor, whatever wild pointers the ports' memory held: all that can be
\* undefined is the use of such a dev_monitor.
THEOREM SafeCorrect == Spec => []SafeIfPlain
<1>1. PortInv /\ Names # {} => SafeIfPlain
  <2> SUFFICES ASSUME PortInv, NEW n \in Names, odd = {} PROVE Held = "no"
    BY DEF SafeIfPlain, Held
  <2>1. PortTypes
    BY DEF PortInv
  <2>2. QED
    BY <2>1, ObjectsAre DEF PortInv, NameInv, Plain
<1>2. Init => undefined = "no"
  BY DEF Init
<1>3. PortInv /\ (Names = {} => undefined = "no") /\ [Next]_vars
        => (Names = {} => undefined' = "no")
  BY NoNames DEF PortInv
<1>4. (Names = {} => undefined = "no") /\ PortInv => SafeIfPlain
  BY <1>1 DEF SafeIfPlain
<1> DEFINE NoNamesDefined == Names = {} => undefined = "no"
<1>5. Init => NoNamesDefined
  BY <1>2
<1>6. PortInv /\ NoNamesDefined /\ [Next]_vars => NoNamesDefined'
  BY <1>3
<1>7. NoNamesDefined /\ PortInv => SafeIfPlain
  BY <1>4
<1> HIDE DEF NoNamesDefined
<1>8. QED
  BY <1>5, <1>6, <1>7, PortsCorrect, PTL DEF Spec
-----------------------------------------------------------------------------
(***************************************************************************)
(* Sessions and the devices they use.                                      *)
(***************************************************************************)
Holds(p, d) == Connected(p) /\ p.dev = d

\* DevicesExclusive, device by device
Exclusive(d) ==
  /\ \A m, n \in Names : Holds(port[m], d) /\ Holds(port[n], d) => m = n
  /\ \A n \in Names : Holds(port[n], d) => lock[d] = "us"
  /\ lock[d] = "us" /\ d \notin leaked => \E n \in Names : Holds(port[n], d)

\* The sessions and this program's locks are as before.
SessionsGoOn ==
  /\ \A n \in Names : SameSession(port[n], port'[n])
  /\ leaked' = leaked
  /\ \A d \in Devices : lock'[d] = "us" <=> lock[d] = "us"

\* DevicesExclusive says it of each device, now and after a step.
LEMMA ExclusiveIs ==
  ASSUME DevicesExclusive, NEW d \in Devices
  PROVE  Exclusive(d)
BY DEF DevicesExclusive, Exclusive, Holds

\* A device at a time is enough.
LEMMA ExclusiveThen ==
  ASSUME PortTypes', \A d \in Devices : Exclusive(d)'
  PROVE  DevicesExclusive'
<1>1. \A n \in Names : Connected(port'[n]) => port'[n].dev \in Devices
  BY DEF PortTypes, ObjectTypes, PortInfo, Connected
<1>2. QED
  BY <1>1 DEF DevicesExclusive, Exclusive, Holds

\* A step that leaves sessions alone
LEMMA GoOnKeeps ==
  ASSUME SessionsGoOn, NEW d \in Devices, Exclusive(d)
  PROVE  Exclusive(d)'
<1>1. \A n \in Names : Holds(port'[n], d) <=> Holds(port[n], d)
  BY DEF SessionsGoOn, SameSession, Holds
<1>2. QED
  BY <1>1 DEF Exclusive, SessionsGoOn

\* A session begins or its setup fails.
LEMMA AcceptExclusive ==
  ASSUME PortInv, NEW name \in Names, HandleAccept(name), NEW d \in Devices, Exclusive(d)
  PROVE  Exclusive(d)'
<1>1. PortTypes
  BY DEF PortInv
<1>2. CASE port[name].number # accepting[name]
  <2>1. UNCHANGED <<port, lock, leaked>>
    BY <1>2 DEF HandleAccept
  <2>2. QED
    BY <2>1 DEF Exclusive
<1>3. CASE port[name].number = accepting[name]
  <2>1. port[name] \in PortInfo /\ SetupTcpPort(name) /\ ~Connected(port[name])
    BY <1>1, <1>3 DEF HandleAccept, None, PortTypes, ObjectTypes
  <2>2. /\ d # port[name].dev => lock'[d] = lock[d] /\ (d \in leaked' <=> d \in leaked)
        /\ \/ /\ port' = [port EXCEPT ![name].connected = TRUE]
              /\ lock[port[name].dev] # "us" /\ lock'[port[name].dev] = "us"
              /\ leaked' = leaked
           \/ /\ port' = port /\ lock[port[name].dev] # "us"
              /\ lock'[port[name].dev] # "us" \/ port[name].dev \in leaked'
           \/ port' = port /\ lock' = lock /\ leaked' = leaked
    BY <1>1, <2>1, SetupIs
  <2>3. CASE /\ port' = [port EXCEPT ![name].connected = TRUE]
             /\ lock[port[name].dev] # "us" /\ lock'[port[name].dev] = "us"
             /\ leaked' = leaked
    <3>1. PICK k : k = [port[name] EXCEPT !.connected = TRUE]
      OBVIOUS
    <3>2. k \in PortInfo /\ k.dev = port[name].dev /\ k.connected /\ k # None
      BY <2>1, <3>1, InfoNotNone DEF PortInfo
    <3>3. port'[name] = k /\ \A n \in Names \ {name} : port'[n] = port[n]
      BY <1>1, <2>3, <3>1 DEF PortTypes, ObjectTypes
    <3>4. /\ Holds(port'[name], d) <=> d = port[name].dev
          /\ ~Holds(port[name], d)
          /\ \A n \in Names \ {name} : Holds(port'[n], d) <=> Holds(port[n], d)
      BY <2>1, <3>2, <3>3 DEF Holds, Connected
    <3>5. QED
      BY <2>2, <2>3, <3>4 DEF Exclusive
  <2>4. CASE /\ port' = port /\ lock[port[name].dev] # "us"
             /\ lock'[port[name].dev] # "us" \/ port[name].dev \in leaked'
    BY <2>2, <2>4 DEF Exclusive
  <2>5. CASE port' = port /\ lock' = lock /\ leaked' = leaked
    BY <2>5 DEF Exclusive
  <2>6. QED
    BY <2>2, <2>3, <2>4, <2>5
<1>4. QED
  BY <1>2, <1>3

\* A session ends.
LEMMA ShutdownExclusive ==
  ASSUME PortInv, NEW name \in Names, ShutdownPort(name), NEW d \in Devices, Exclusive(d)
  PROVE  Exclusive(d)'
<1>1. /\ ~Connected(port'[name])
      /\ \A n \in Names \ {name} : port'[n] = port[n]
  BY ShutdownKeeps
<1>2. /\ lock \in [Devices -> {"free", "us", "other", "dead"}]
      /\ lock' = [lock EXCEPT ![port[name].dev] = "free"] /\ leaked' = leaked
      /\ Connected(port[name])
  BY DEF ShutdownPort, PortInv, PortTypes
<1>3. /\ ~Holds(port'[name], d) /\ (Holds(port[name], d) <=> d = port[name].dev)
      /\ \A n \in Names \ {name} : Holds(port'[n], d) <=> Holds(port[n], d)
  BY <1>1, <1>2 DEF Holds
<1>4. CASE d = port[name].dev
  <2>1. lock'[d] = "free"
    BY <1>2, <1>4
  <2>2. \A n \in Names : ~Holds(port'[n], d)
    BY <1>3, <1>4 DEF Exclusive
  <2>3. QED
    BY <2>1, <2>2 DEF Exclusive
<1>5. CASE d # port[name].dev
  <2>1. lock'[d] = lock[d]
    BY <1>2, <1>5
  <2>2. \A n \in Names : Holds(port'[n], d) <=> Holds(port[n], d)
    BY <1>3, <1>5
  <2>3. QED
    BY <1>2, <2>1, <2>2 DEF Exclusive
<1>6. QED
  BY <1>4, <1>5

\* The other steps leave the sessions alone or end them all.
LEMMA OtherSteps ==
  ASSUME PortInv, [Next]_vars
  PROVE  \/ \E name \in Names : HandleAccept(name) \/ ShutdownPort(name)
         \/ SessionsGoOn /\ restarts' = restarts
         \/ Restart
<1>1. PortTypes
  BY DEF PortInv
<1>2. CASE Reload
  BY <1>2, ReloadKeeps DEF Reload, SessionsGoOn, counters
<1>3. ASSUME NEW name \in Names, DataMonitorStart(name)
      PROVE  SessionsGoOn /\ restarts' = restarts
  BY <1>3, MonitorStartKeeps DEF DataMonitorStart, SessionsGoOn, counters
<1>4. ASSUME NEW name \in Names, MonitorData(name)
      PROVE  SessionsGoOn /\ restarts' = restarts
  BY <1>4 DEF MonitorData, SessionsGoOn, SameSession, counters
<1>5. ASSUME NEW name \in Names, NEW state \in States, SetPortEnable(name, state)
      PROVE  SessionsGoOn /\ restarts' = restarts
  BY <1>5, SetEnableKeeps DEF SetPortEnable, SessionsGoOn
<1>6. CASE DataMonitorStop
  BY <1>6, MonitorStopKeeps DEF DataMonitorStop, SessionsGoOn, counters
<1>7. ASSUME NEW d \in Devices, OtherProgram(d)
      PROVE  SessionsGoOn /\ restarts' = restarts
  BY <1>1, <1>7 DEF OtherProgram, SessionsGoOn, SameSession, PortTypes, objects, counters
<1>8. CASE UNCHANGED vars
  BY <1>8 DEF vars, objects, counters, SessionsGoOn, SameSession
<1>9. QED
  BY <1>2, <1>3, <1>4, <1>5, <1>6, <1>7, <1>8 DEF Next

\* No two sessions have the same device and a device in use is locked, for
\* any names, devices and configuration files (handle_accept_port_read,
\* uucp_mk_lock, shutdown_port).
THEOREM DevicesCorrect == Spec => []DevicesExclusive
<1>1. Init => DevicesExclusive
  BY DEF Init, DevicesExclusive, Connected
<1>2. ASSUME PortInv, PortInv', DevicesExclusive, [Next]_vars PROVE DevicesExclusive'
  <2>1. PortTypes /\ PortTypes'
    BY <1>2 DEF PortInv
  <2>2. \A d \in Devices : Exclusive(d)
    BY <1>2, ExclusiveIs
  <2>3. CASE SessionsGoOn
    <3>1. \A d \in Devices : Exclusive(d)'
      BY <2>2, <2>3, GoOnKeeps
    <3>2. QED
      BY <2>1, <3>1, ExclusiveThen
  <2>4. ASSUME NEW name \in Names, HandleAccept(name) PROVE DevicesExclusive'
    <3>1. \A d \in Devices : Exclusive(d)'
      BY <1>2, <2>2, <2>4, AcceptExclusive
    <3>2. QED
      BY <2>1, <3>1, ExclusiveThen
  <2>5. ASSUME NEW name \in Names, ShutdownPort(name) PROVE DevicesExclusive'
    <3>1. \A d \in Devices : Exclusive(d)'
      BY <1>2, <2>2, <2>5, ShutdownExclusive
    <3>2. QED
      BY <2>1, <3>1, ExclusiveThen
  <2>6. CASE Restart
    <3>1. \A n \in Names : ~Connected(port'[n])
      BY <1>2, <2>6, RestartKeeps
    <3>2. \A d \in Devices : lock'[d] # "us"
      BY <2>6 DEF Restart
    <3>3. QED
      BY <3>1, <3>2 DEF DevicesExclusive
  <2>7. QED
    BY <1>2, <2>3, <2>4, <2>5, <2>6, OtherSteps
<1>3. QED
  BY <1>1, <1>2, PortsCorrect, PTL DEF Spec

\* A session keeps its port and its device until shutdown_port ends it, and
\* neither a reload nor the control port does.
THEOREM SessionsKept == Spec => SessionKeepsPort
<1> DEFINE Kept ==
      restarts' = restarts =>
        \A n \in Names : Connected(port[n]) =>
          \/ /\ Connected(port'[n])
             /\ port'[n].number = port[n].number /\ port'[n].dev = port[n].dev
          \/ /\ ~Connected(port'[n])
             /\ config_num' = config_num /\ enables' = enables
             /\ lock'[port[n].dev] = "free"
<1> DEFINE Counted == restarts \in Nat
<1>0. Spec => []Counted
  <2>1. Init => Counted
    BY DEF Init
  <2>2. ASSUME PortInv, Counted, [Next]_vars PROVE Counted'
    <3>1. ASSUME NEW name \in Names, HandleAccept(name) \/ ShutdownPort(name)
          PROVE  restarts' = restarts
      BY <3>1, Zenon DEF HandleAccept, ShutdownPort, counters
    <3>2. restarts' = restarts \/ Restart
      BY <2>2, <3>1, OtherSteps
    <3>3. QED
      BY <2>2, <3>2 DEF Restart
  <2>3. QED
    BY <2>1, <2>2, PortsCorrect, PTL DEF Spec
<1>1. ASSUME PortInv, restarts \in Nat, [Next]_vars PROVE Kept
  <2>1. PortTypes
    BY <1>1 DEF PortInv
  <2>2. CASE SessionsGoOn
    BY <2>2 DEF SessionsGoOn, SameSession
  <2>3. ASSUME NEW name \in Names, HandleAccept(name) PROVE Kept
    <3>1. port' = port \/ (/\ port' = [port EXCEPT ![name].connected = TRUE]
                           /\ port[name] \in PortInfo /\ ~Connected(port[name]))
      <4>1. CASE port[name].number # accepting[name]
        BY <2>3, <4>1 DEF HandleAccept
      <4>2. CASE port[name].number = accepting[name]
        <5>1. port[name] \in PortInfo /\ SetupTcpPort(name) /\ ~Connected(port[name])
          BY <2>1, <2>3, <4>2 DEF HandleAccept, None, PortTypes, ObjectTypes
        <5>2. QED
          BY <2>1, <5>1, SetupIs
      <4>3. QED
        BY <4>1, <4>2
    <3>2. CASE port' = port
      BY <3>2
    <3>3. CASE /\ port' = [port EXCEPT ![name].connected = TRUE]
               /\ port[name] \in PortInfo /\ ~Connected(port[name])
      <4>1. \A n \in Names : Connected(port[n]) => n # name /\ port'[n] = port[n]
        BY <2>1, <3>3 DEF PortTypes, ObjectTypes
      <4>2. QED
        BY <4>1
    <3>4. QED
      BY <3>1, <3>2, <3>3
  <2>4. ASSUME NEW name \in Names, ShutdownPort(name) PROVE Kept
    <3>1. /\ ~Connected(port'[name])
          /\ \A n \in Names \ {name} : port'[n] = port[n]
      BY <1>1, <2>4, ShutdownKeeps
    <3>2. /\ config_num' = config_num /\ enables' = enables
          /\ lock'[port[name].dev] = "free"
      <4>1. port[name].dev \in Devices
        BY <2>1, <2>4 DEF ShutdownPort, Connected, PortTypes, ObjectTypes, PortInfo
      <4>2. QED
        BY <2>1, <2>4, <4>1 DEF ShutdownPort, PortTypes, counters
    <3>3. QED
      BY <3>1, <3>2
  <2>5. CASE Restart
    BY <1>1, <2>5 DEF Restart
  <2>6. QED
    BY <1>1, <2>2, <2>3, <2>4, <2>5, OtherSteps
<1>2. QED
  BY <1>0, <1>1, PortsCorrect, PTL DEF Spec, SessionKeepsPort
=============================================================================
