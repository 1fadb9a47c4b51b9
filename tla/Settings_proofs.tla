-------------------------- MODULE Settings_proofs --------------------------
(***************************************************************************)
(* The services of MCServices that work from the settings of the miner:    *)
(* the identity that miner.ini keeps, and the plans that the caps of a     *)
(* card's memory allow.                                                    *)
(***************************************************************************)
EXTENDS Records_proofs

-----------------------------------------------------------------------------
(* MinerIni *)

LEMMA IniFrame ==
  [ServicesNext]_all /\ service = "ini" => service' = "ini" /\ [Ini!Next]_Ini!vars
<1> QED
    BY DEF all, ServicesNext, LockRuns, HeatRuns, CpuRuns, PowerRuns, UptimeRuns, IniRuns,
       ReportRuns, BalancesRuns, UpgradeRuns, VramRuns, SnapsRuns, ini, Ini!vars

LineType ==
  [section : {"none", "account", "server", "monitoring", "cuda"},
   key : {"none", "address", "worker", "base_url", "name", "tracker", "dll"}, value : Nat]
Text == Seq(LineType)

(* A text that has every line of the example, and one that crashes and     *)
(* appended lines have left without the section of the server.             *)
WholeText(f) ==
  /\ f \in [1..6 -> LineType]
  /\ \A i \in 1..6 : f[i].section = Ini!Example[i].section /\ f[i].key = Ini!Example[i].key
BrokenText(f) == f \in Text /\ \A i \in 1..Len(f) : f[i].section # "server"

(* What is set is one of four lines, never to nothing.                     *)
Entry ==
  {<<"account", "address", v>> : v \in Nat \ {0}}
  \cup {<<"account", "worker", v>> : v \in Nat \ {0}}
  \cup {<<"monitoring", "name", v>> : v \in Nat \ {0}}
  \cup {<<"monitoring", "tracker", v>> : v \in Nat \ {0}}

(* A whole text with the value set.                                        *)
Put(f, e) == [i \in 1..6 |-> IF f[i].key = e[2] THEN [f[i] EXCEPT !.value = e[3]] ELSE f[i]]

LEMMA ExampleLines ==
  /\ Ini!Example[1] = Ini!Line("account", "address", 0)
  /\ Ini!Example[2] = Ini!Line("account", "worker", 0)
  /\ Ini!Example[3] = Ini!Line("server", "base_url", 1)
  /\ Ini!Example[4] = Ini!Line("monitoring", "name", 0)
  /\ Ini!Example[5] = Ini!Line("monitoring", "tracker", 0)
  /\ Ini!Example[6] = Ini!Line("cuda", "dll", 1)
<1> QED BY DEF Ini!Example

LEMMA WholeLines ==
  ASSUME NEW f, WholeText(f)
  PROVE  /\ DOMAIN f = 1..6
         /\ \A i \in 1..6 : f[i] \in LineType /\ f[i].value \in Nat
         /\ f[1].section = "account" /\ f[1].key = "address"
         /\ f[2].section = "account" /\ f[2].key = "worker"
         /\ f[3].section = "server" /\ f[3].key = "base_url"
         /\ f[4].section = "monitoring" /\ f[4].key = "name"
         /\ f[5].section = "monitoring" /\ f[5].key = "tracker"
         /\ f[6].section = "cuda" /\ f[6].key = "dll"
<1>1. DOMAIN f = 1..6 /\ \A i \in 1..6 : f[i] \in LineType
    BY DEF WholeText
<1>2. \A i \in 1..6 : f[i].value \in Nat
    BY <1>1 DEF LineType
<1>3. \A i \in 1..6 : f[i].section = Ini!Example[i].section /\ f[i].key = Ini!Example[i].key
    BY DEF WholeText
<1>4. /\ f[1].section = "account" /\ f[1].key = "address"
      /\ f[2].section = "account" /\ f[2].key = "worker"
      /\ f[3].section = "server" /\ f[3].key = "base_url"
    BY <1>3, ExampleLines DEF Ini!Line
<1>5. /\ f[4].section = "monitoring" /\ f[4].key = "name"
      /\ f[5].section = "monitoring" /\ f[5].key = "tracker"
      /\ f[6].section = "cuda" /\ f[6].key = "dll"
    BY <1>3, ExampleLines DEF Ini!Line
<1> QED BY <1>1, <1>2, <1>4, <1>5

(* No two lines of it set the same key.                                    *)
LEMMA WholeApart ==
  ASSUME NEW f, WholeText(f)
  PROVE  \A i, j \in 1..6 : f[i].key = f[j].key => i = j
<1>1. \A i \in 1..6 : i = 1 \/ i = 2 \/ i = 3 \/ i = 4 \/ i = 5 \/ i = 6
    OBVIOUS
<1> QED BY <1>1, WholeLines

LEMMA WholeIsText ==
  ASSUME NEW f, WholeText(f)
  PROVE  f \in Text /\ f # Ini!Absent
<1>1. f \in [1..6 -> LineType]
    BY DEF WholeText
<1>2. f \in Text
    BY <1>1 DEF Text
<1>3. Len(f) = 6
    BY <1>1, <1>2 DEF Text
<1>4. Len(Ini!Absent) = 1
    BY DEF Ini!Absent
<1> QED BY <1>2, <1>3, <1>4

LEMMA PutWhole ==
  ASSUME NEW f, WholeText(f), NEW e \in Entry
  PROVE  /\ WholeText(Put(f, e))
         /\ \A i \in 1..6 : Put(f, e)[i].value = IF f[i].key = e[2] THEN e[3] ELSE f[i].value
<1>1. e[3] \in Nat
    BY DEF Entry
<1> DEFINE g == Put(f, e)
<1>2. ASSUME NEW i \in 1..6
      PROVE  /\ g[i] \in LineType /\ g[i].section = f[i].section /\ g[i].key = f[i].key
             /\ g[i].value = IF f[i].key = e[2] THEN e[3] ELSE f[i].value
  <2>1. f[i] \in LineType
      BY WholeLines
  <2>2. g[i] = IF f[i].key = e[2] THEN [f[i] EXCEPT !.value = e[3]] ELSE f[i]
      BY DEF Put
  <2> HIDE DEF g
  <2> DEFINE l == f[i]
             v == e[3]
  <2>3. l \in LineType /\ v \in Nat
      BY <1>1, <2>1
  <2>4. [l EXCEPT !.value = v] \in LineType /\ [l EXCEPT !.value = v].section = l.section
        /\ [l EXCEPT !.value = v].key = l.key /\ [l EXCEPT !.value = v].value = v
    <3> HIDE DEF l, v
    <3> QED BY <2>3 DEF LineType
  <2> QED BY <2>1, <2>2, <2>4
<1>3. g \in [1..6 -> LineType]
  <2>1. g = [i \in 1..6 |-> g[i]]
      BY DEF Put
  <2> HIDE DEF g
  <2> QED BY <1>2, <2>1
<1> HIDE DEF g
<1>4. WholeText(g)
    BY <1>2, <1>3 DEF WholeText
<1> QED BY <1>2, <1>4 DEF g

(* What is read of a whole file.                                           *)
LEMMA WholeValues ==
  ASSUME WholeText(iniLines)
  PROVE  /\ Ini!Value("account", "address") = iniLines[1].value
         /\ Ini!Value("account", "worker") = iniLines[2].value
         /\ Ini!Value("monitoring", "name") = iniLines[4].value
         /\ Ini!Value("monitoring", "tracker") = iniLines[5].value
<1>1. ASSUME NEW k \in 1..6
      PROVE  Ini!Value(iniLines[k].section, iniLines[k].key) = iniLines[k].value
  <2> DEFINE hits == {i \in DOMAIN iniLines :
                          Ini!IsSet(iniLines[i], iniLines[k].section, iniLines[k].key)}
  <2>1. hits = {k}
      BY WholeLines, WholeApart DEF Ini!IsSet
  <2>2. Ini!Min({k}) = k
      BY DEF Ini!Min
  <2>3. Ini!Value(iniLines[k].section, iniLines[k].key) =
            IF hits = {} THEN 0 ELSE iniLines[Ini!Min(hits)].value
      BY DEF Ini!Value
  <2> HIDE DEF hits
  <2> QED BY <2>1, <2>2, <2>3
<1>2. /\ Ini!Value(iniLines[1].section, iniLines[1].key) = iniLines[1].value
      /\ Ini!Value(iniLines[2].section, iniLines[2].key) = iniLines[2].value
      /\ Ini!Value(iniLines[4].section, iniLines[4].key) = iniLines[4].value
      /\ Ini!Value(iniLines[5].section, iniLines[5].key) = iniLines[5].value
    BY <1>1
<1> QED BY <1>2, WholeLines

(* A value set in a whole file replaces the one there.                     *)
LEMMA EditedWhole ==
  ASSUME WholeText(iniLines), NEW e \in Entry
  PROVE  Ini!Edited(e[1], e[2], e[3]) = Put(iniLines, e)
<1>1. /\ DOMAIN iniLines = 1..6
      /\ \E i \in DOMAIN iniLines : Ini!IsSet(iniLines[i], e[1], e[2])
    BY WholeLines DEF Entry, Ini!IsSet
<1>2. \A i \in 1..6 : Ini!IsSet(iniLines[i], e[1], e[2]) <=> iniLines[i].key = e[2]
  <2>1. \A i \in 1..6 : i = 1 \/ i = 2 \/ i = 3 \/ i = 4 \/ i = 5 \/ i = 6
      OBVIOUS
  <2> QED BY <2>1, WholeLines DEF Entry, Ini!IsSet
<1> QED BY <1>1, <1>2 DEF Ini!Edited, Put

(* In a broken one it may be appended, never to the section of the server. *)
LEMMA EditedBroken ==
  ASSUME BrokenText(iniLines), NEW e \in Entry
  PROVE  BrokenText(Ini!Edited(e[1], e[2], e[3]))
<1> DEFINE g == Ini!Edited(e[1], e[2], e[3])
<1>1. /\ iniLines \in Text /\ Len(iniLines) \in Nat /\ DOMAIN iniLines = 1..Len(iniLines)
      /\ \A i \in 1..Len(iniLines) : iniLines[i] \in LineType /\ iniLines[i].section # "server"
    BY DEF BrokenText, Text
<1>2. e[1] \in {"account", "monitoring"} /\ e[3] \in Nat
      /\ e[2] \in {"address", "worker", "name", "tracker"}
    BY DEF Entry
<1>3. CASE \E i \in DOMAIN iniLines : Ini!IsSet(iniLines[i], e[1], e[2])
  <2>1. g = [i \in 1..Len(iniLines) |->
                IF Ini!IsSet(iniLines[i], e[1], e[2])
                THEN [iniLines[i] EXCEPT !.value = e[3]] ELSE iniLines[i]]
      BY <1>1, <1>3 DEF Ini!Edited
  <2>2. ASSUME NEW i \in 1..Len(iniLines)
        PROVE  g[i] \in LineType /\ g[i].section # "server"
    <3> DEFINE l == iniLines[i]
               v == e[3]
    <3>1. l \in LineType /\ l.section # "server" /\ v \in Nat
        BY <1>1, <1>2
    <3>2. [l EXCEPT !.value = v] \in LineType /\ [l EXCEPT !.value = v].section = l.section
      <4> HIDE DEF l, v
      <4> QED BY <3>1 DEF LineType
    <3>3. g[i] = l \/ g[i] = [l EXCEPT !.value = v]
        BY <2>1
    <3> HIDE DEF g, l, v
    <3> QED BY <3>1, <3>2, <3>3
  <2>3. Len(g) = Len(iniLines) /\ g \in Text
    <3>1. g = [i \in 1..Len(iniLines) |-> g[i]]
        BY <2>1
    <3> HIDE DEF g
    <3>2. g \in [1..Len(iniLines) -> LineType]
        BY <2>2, <3>1
    <3> QED BY <1>1, <3>2 DEF Text
  <2> HIDE DEF g
  <2>4. BrokenText(g)
      BY <2>2, <2>3 DEF BrokenText
  <2> QED BY <2>4 DEF g
<1>4. CASE ~\E i \in DOMAIN iniLines : Ini!IsSet(iniLines[i], e[1], e[2])
  <2> DEFINE s == Ini!AtEnd(e[1])
             l == Ini!Line(s, e[2], e[3])
  <2>1. s \in {"none", "account", "monitoring", "cuda"}
    <3>1. CASE \E i \in DOMAIN iniLines : iniLines[i].section = e[1]
      <4>1. Len(iniLines) \in 1..Len(iniLines)
          BY <1>1, <3>1
      <4>2. s = iniLines[Len(iniLines)].section
          BY <3>1 DEF Ini!AtEnd, Ini!Last
      <4>3. iniLines[Len(iniLines)] \in LineType
            /\ iniLines[Len(iniLines)].section # "server"
          BY <1>1, <4>1
      <4> HIDE DEF s
      <4> QED BY <4>2, <4>3 DEF LineType
    <3>2. CASE ~\E i \in DOMAIN iniLines : iniLines[i].section = e[1]
        BY <1>2, <3>2 DEF Ini!AtEnd
    <3> QED BY <3>1, <3>2
  <2> HIDE DEF s
  <2>2. l \in LineType /\ l.section # "server"
      BY <1>2, <2>1 DEF Ini!Line, LineType
  <2>3. g = Append(iniLines, l)
      BY <1>4 DEF Ini!Edited, s
  <2> HIDE DEF g, l
  <2>4. g \in Text /\ Len(g) = Len(iniLines) + 1 /\ g[Len(iniLines) + 1] = l
        /\ \A i \in 1..Len(iniLines) : g[i] = iniLines[i]
      BY <1>1, <2>2, <2>3 DEF Text
  <2>5. \A i \in 1..Len(g) : g[i].section # "server"
      BY <1>1, <2>2, <2>4
  <2>6. BrokenText(g)
      BY <2>4, <2>5 DEF BrokenText
  <2> QED BY <2>6 DEF g
<1> QED BY <1>3, <1>4

KeysOf(s) == {s[i][2] : i \in 1..Len(s)}

LEMMA KeysOfNone == <<>> \in Seq(Entry) /\ KeysOf(<<>>) = {}
<1> QED BY DEF KeysOf

LEMMA KeysOfOne ==
  ASSUME NEW e \in Entry
  PROVE  /\ <<e>> \in Seq(Entry) /\ <<e>> # <<>> /\ Len(<<e>>) = 1 /\ <<e>>[1] = e
         /\ KeysOf(<<e>>) = {e[2]} /\ Head(<<e>>) = e /\ Tail(<<e>>) = <<>>
<1>1. <<e>> \in Seq(Entry) /\ <<e>> # <<>> /\ Len(<<e>>) = 1 /\ <<e>>[1] = e
      /\ Head(<<e>>) = e /\ Tail(<<e>>) = <<>>
    OBVIOUS
<1> QED BY <1>1 DEF KeysOf

LEMMA KeysJoin ==
  ASSUME NEW s \in Seq(Entry), NEW t \in Seq(Entry)
  PROVE  /\ s \o t \in Seq(Entry)
         /\ KeysOf(s \o t) = KeysOf(s) \cup KeysOf(t)
         /\ s \o t = <<>> <=> s = <<>> /\ t = <<>>
<1> DEFINE u == s \o t
<1>1. u \in Seq(Entry) /\ Len(u) = Len(s) + Len(t) /\ Len(s) \in Nat /\ Len(t) \in Nat
    OBVIOUS
<1>2. /\ \A i \in 1..Len(s) : u[i] = s[i]
      /\ \A i \in (Len(s) + 1)..(Len(s) + Len(t)) : u[i] = t[i - Len(s)]
    OBVIOUS
<1> HIDE DEF u
<1>3. ASSUME NEW x \in KeysOf(u) PROVE x \in KeysOf(s) \cup KeysOf(t)
  <2>1. PICK i \in 1..Len(u) : x = u[i][2]
      BY DEF KeysOf
  <2>2. CASE i <= Len(s)
    <3>1. i \in 1..Len(s) /\ u[i] = s[i]
        BY <1>1, <1>2, <2>2
    <3> QED BY <2>1, <3>1 DEF KeysOf
  <2>3. CASE i > Len(s)
    <3>1. i - Len(s) \in 1..Len(t) /\ u[i] = t[i - Len(s)]
        BY <1>1, <1>2, <2>3
    <3> QED BY <2>1, <3>1 DEF KeysOf
  <2> QED BY <1>1, <2>2, <2>3
<1>4. ASSUME NEW x \in KeysOf(s) PROVE x \in KeysOf(u)
  <2>1. PICK i \in 1..Len(s) : x = s[i][2]
      BY DEF KeysOf
  <2>2. i \in 1..Len(u) /\ u[i] = s[i]
      BY <1>1, <1>2
  <2> QED BY <2>1, <2>2 DEF KeysOf
<1>5. ASSUME NEW x \in KeysOf(t) PROVE x \in KeysOf(u)
  <2>1. PICK i \in 1..Len(t) : x = t[i][2]
      BY DEF KeysOf
  <2>2. i + Len(s) \in 1..Len(u) /\ (i + Len(s)) - Len(s) = i
        /\ i + Len(s) \in (Len(s) + 1)..(Len(s) + Len(t))
      BY <1>1
  <2>3. u[i + Len(s)] = t[(i + Len(s)) - Len(s)]
      BY <1>2, <2>2
  <2>4. u[i + Len(s)] = t[i]
      BY <2>2, <2>3
  <2> QED BY <2>1, <2>2, <2>4 DEF KeysOf
<1>6. u = <<>> <=> s = <<>> /\ t = <<>>
  <2>1. /\ u = <<>> <=> Len(u) = 0
        /\ s = <<>> <=> Len(s) = 0
        /\ t = <<>> <=> Len(t) = 0
      BY <1>1
  <2> QED BY <1>1, <2>1
<1>7. KeysOf(u) = KeysOf(s) \cup KeysOf(t)
    BY <1>3, <1>4, <1>5
<1> QED BY <1>1, <1>6, <1>7 DEF u

LEMMA KeysPass ==
  ASSUME NEW s \in Seq(Entry), s # <<>>
  PROVE  /\ Head(s) \in Entry /\ Tail(s) \in Seq(Entry)
         /\ KeysOf(s) = {Head(s)[2]} \cup KeysOf(Tail(s))
<1>1. /\ Len(s) \in Nat \ {0} /\ Head(s) = s[1] /\ s[1] \in Entry
      /\ Tail(s) \in Seq(Entry) /\ Len(Tail(s)) = Len(s) - 1
      /\ \A i \in 1..(Len(s) - 1) : Tail(s)[i] = s[i + 1]
    OBVIOUS
<1> DEFINE t == Tail(s)
<1>2. Head(s)[2] \in KeysOf(s)
    BY <1>1 DEF KeysOf
<1> HIDE DEF t
<1>3. ASSUME NEW x \in KeysOf(t) PROVE x \in KeysOf(s)
  <2>1. PICK i \in 1..Len(t) : x = t[i][2]
      BY DEF KeysOf
  <2>2. i + 1 \in 1..Len(s) /\ t[i] = s[i + 1]
      BY <1>1 DEF t
  <2> QED BY <2>1, <2>2 DEF KeysOf
<1>4. ASSUME NEW x \in KeysOf(s) PROVE x = Head(s)[2] \/ x \in KeysOf(t)
  <2>1. PICK i \in 1..Len(s) : x = s[i][2]
      BY DEF KeysOf
  <2>2. CASE i = 1
      BY <1>1, <2>1, <2>2
  <2>3. CASE i # 1
    <3>1. i - 1 \in 1..(Len(s) - 1) /\ (i - 1) + 1 = i
        BY <1>1, <2>3
    <3>2. i - 1 \in 1..Len(t) /\ t[i - 1] = s[i]
        BY <1>1, <3>1 DEF t
    <3> QED BY <2>1, <3>2 DEF KeysOf
  <2> QED BY <2>2, <2>3
<1>5. KeysOf(s) = {Head(s)[2]} \cup KeysOf(t)
    BY <1>2, <1>3, <1>4
<1> QED BY <1>1, <1>5 DEF t

-----------------------------------------------------------------------------

RunType ==
  [at : {"out", "wallet", "names", "read", "write", "load", "on", "mining"},
   todo : Seq(Entry), text : Text,
   next : {"out", "names", "load", "on"}, tracker : Nat, name : Nat]

Setting(r) == r.at \in {"read", "write"}

(* What a program may be at, whatever has happened to the file.            *)
Steady(p, r) ==
  /\ r \in RunType
  /\ r.todo # <<>> <=> Setting(r)
  /\ Setting(r) => /\ r.next \in {"names", "load", "on"}
                   /\ r.next # "on" => "tracker" \notin KeysOf(r.todo)
  /\ p = "watchdog" => /\ r.at \in {"out", "load", "on", "read", "write"}
                       /\ Setting(r) => r.next = "on"
  /\ r.at = "write" => WholeText(r.text) \/ BrokenText(r.text)

(* It is at a step, or sets what is missing and comes to it then.          *)
Nears(r, step) == r.at = step \/ (Setting(r) /\ r.next = step)

(* The key is set, or will be.                                             *)
Will(r, f, k) == f[k].value # 0 \/ f[k].key \in KeysOf(r.todo)
Known(f) == f[1].value # 0 /\ f[2].value # 0 /\ f[4].value # 0

(* As long as no write was lost, the text about to be written is the file  *)
(* with one value set, and the tracker id is set only once.                *)
Ready(r, f) ==
  /\ r.at = "write" => r.text = Put(f, Head(r.todo))
  /\ Setting(r) /\ r.next = "on" =>
        /\ r.todo = <<<<"monitoring", "tracker", r.tracker>>>>
        /\ f[5].value = 0 /\ r.tracker # 0

(* The miner comes to a session with all of the identity, as in the file.  *)
MinerReady(r, f) ==
  /\ Nears(r, "names") => Will(r, f, 1)
  /\ Nears(r, "load") => Will(r, f, 1) /\ Will(r, f, 2) /\ Will(r, f, 4)
  /\ Nears(r, "on") => Known(f) /\ r.name = f[4].value
  /\ r.at = "on" => r.tracker = f[5].value /\ f[5].value # 0

(* What was saved, and what sessions have used, is in the file.            *)
InFile(f) ==
  /\ saved # 0 => f[1].value = saved
  /\ used.names \subseteq {f[4].value} /\ used.trackers \subseteq {f[5].value}
  /\ used.names # {} => Known(f)
  /\ used.trackers # {} => f[5].value # 0

Untouched ==
  /\ saved = 0 /\ used.names = {} /\ used.trackers = {}
  /\ start["miner"].at = "out" /\ start["watchdog"].at \in {"out", "load"}

Identity ==
  /\ WholeText(iniLines) \/ iniLines = Ini!Absent
  /\ iniLines = Ini!Absent => Untouched
  /\ WholeText(iniLines) =>
        /\ InFile(iniLines)
        /\ \A p \in Ini!Program : Ready(start[p], iniLines)
        /\ MinerReady(start["miner"], iniLines)
        /\ used.names # {} => KeysOf(start["miner"].todo) \subseteq {"tracker"}

IniInv ==
  /\ start \in [Ini!Program -> RunType]
  /\ fresh \in Nat /\ saved \in Nat /\ iniMishap \in BOOLEAN
  /\ used = [trackers |-> used.trackers, names |-> used.names]
  /\ \A p \in Ini!Program : Steady(p, start[p])
  /\ WholeText(iniLines) \/ BrokenText(iniLines)
  /\ ~iniMishap => Identity

LEMMA IdleSteady ==
  ASSUME NEW p \in Ini!Program
  PROVE  /\ Steady(p, Ini!Idle) /\ KeysOf(Ini!Idle.todo) = {} /\ Ini!Idle.at = "out"
         /\ \A f : Ready(Ini!Idle, f) /\ MinerReady(Ini!Idle, f)
<1>1. Ini!Idle \in RunType
    BY KeysOfNone DEF Ini!Idle, RunType, Text
<1>2. Ini!Idle.at = "out" /\ Ini!Idle.todo = <<>>
    BY DEF Ini!Idle
<1> QED BY <1>1, <1>2, KeysOfNone DEF Steady, Ready, MinerReady, Nears, Setting

LEMMA AbsentIsBroken == BrokenText(Ini!Absent) /\ ~WholeText(Ini!Absent)
<1>1. Ini!Absent \in Text /\ Len(Ini!Absent) = 1 /\ Ini!Absent[1].section = "none"
    BY DEF Ini!Absent, Ini!Line, Text, LineType
<1>2. BrokenText(Ini!Absent)
    BY <1>1 DEF BrokenText
<1> QED BY <1>2, WholeIsText

(* One program moves and the file, what was saved and what was used stay.  *)
LEMMA ProgramMoves ==
  ASSUME IniInv, NEW p \in Ini!Program, NEW r, start' = [start EXCEPT ![p] = r], Steady(p, r),
         UNCHANGED <<iniLines, saved, used>>, fresh' \in Nat, iniMishap' \in BOOLEAN,
         ~iniMishap' => /\ ~iniMishap
                        /\ iniLines = Ini!Absent =>
                              r.at = "out" \/ (p = "watchdog" /\ r.at = "load")
                        /\ WholeText(iniLines) =>
                              /\ Ready(r, iniLines)
                              /\ p = "miner" =>
                                    /\ MinerReady(r, iniLines)
                                    /\ used.names # {} => KeysOf(r.todo) \subseteq {"tracker"}
  PROVE  IniInv'
<1>1. /\ start \in [Ini!Program -> RunType] /\ r \in RunType
      /\ \A q \in Ini!Program : Steady(q, start[q])
    BY DEF IniInv, Steady
<1>2. /\ start' \in [Ini!Program -> RunType] /\ start'[p] = r
      /\ \A q \in Ini!Program \ {p} : start'[q] = start[q]
    BY <1>1
<1>3. \A q \in Ini!Program : Steady(q, start'[q])
    BY <1>1, <1>2
<1>4. ASSUME ~iniMishap' PROVE Identity'
  <2>1. Identity
      BY <1>4 DEF IniInv
  <2>2. "miner" \in Ini!Program /\ "watchdog" \in Ini!Program
        /\ (p = "miner" \/ p = "watchdog")
      BY DEF Ini!Program
  <2>3. iniLines = Ini!Absent => Untouched'
      BY <1>2, <1>4, <2>1, <2>2 DEF Identity, Untouched
  <2>4. WholeText(iniLines) => \A q \in Ini!Program : Ready(start'[q], iniLines)
      BY <1>2, <1>4, <2>1 DEF Identity
  <2>5. WholeText(iniLines) =>
            /\ MinerReady(start'["miner"], iniLines)
            /\ used.names # {} => KeysOf(start'["miner"].todo) \subseteq {"tracker"}
      BY <1>2, <1>4, <2>1, <2>2 DEF Identity
  <2>6. WholeText(iniLines) => InFile(iniLines)'
      BY <2>1 DEF Identity, InFile
  <2> QED BY <2>1, <2>3, <2>4, <2>5, <2>6 DEF Identity
<1> QED BY <1>2, <1>3, <1>4 DEF IniInv

LEMMA GoesTo ==
  ASSUME IniInv, NEW p \in Ini!Program,
         NEW step \in {"out", "wallet", "names", "read", "write", "load", "on", "mining"},
         NEW todo \in Seq(Entry), NEW next \in {"out", "names", "load", "on"},
         Ini!Goes(p, step, todo, next)
  PROVE  start' = [start EXCEPT ![p] =
                     [at |-> step, todo |-> todo, text |-> start[p].text, next |-> next,
                      tracker |-> start[p].tracker, name |-> start[p].name]]
<1> DEFINE r == start[p]
<1>1. start \in [Ini!Program -> RunType] /\ r \in RunType
    BY DEF IniInv
<1>2. start' = [start EXCEPT ![p] = [r EXCEPT !.at = step, !.todo = todo, !.next = next]]
    BY <1>1 DEF Ini!Goes
<1> HIDE DEF r
<1> DEFINE q == [r EXCEPT !.at = step, !.todo = todo, !.next = next]
<1>3. q \in RunType /\ q.at = step /\ q.todo = todo /\ q.next = next /\ q.text = r.text
      /\ q.tracker = r.tracker /\ q.name = r.name
    BY <1>1 DEF RunType
<1> HIDE DEF q
<1>4. q = [at |-> q.at, todo |-> q.todo, text |-> q.text, next |-> q.next,
           tracker |-> q.tracker, name |-> q.name]
    BY <1>3 DEF RunType
<1>5. q = [at |-> step, todo |-> todo, text |-> r.text, next |-> next,
           tracker |-> r.tracker, name |-> r.name]
    BY <1>3, <1>4
<1> QED BY <1>2, <1>5 DEF q, r

LEMMA RunFacts ==
  ASSUME IniInv, NEW p \in Ini!Program
  PROVE  /\ start[p] \in RunType /\ Steady(p, start[p])
         /\ start[p].at \in {"out", "wallet", "names", "read", "write", "load", "on", "mining"}
         /\ start[p].todo \in Seq(Entry) /\ start[p].text \in Text
         /\ start[p].next \in {"out", "names", "load", "on"}
         /\ start[p].tracker \in Nat /\ start[p].name \in Nat
         /\ ~Setting(start[p]) => start[p].todo = <<>> /\ KeysOf(start[p].todo) = {}
<1>1. start[p] \in RunType /\ Steady(p, start[p])
    BY DEF IniInv
<1>2. ~Setting(start[p]) => start[p].todo = <<>>
    BY <1>1 DEF Steady
<1>3. ~Setting(start[p]) => KeysOf(start[p].todo) = {}
    BY <1>2, KeysOfNone
<1> QED BY <1>1, <1>2, <1>3 DEF RunType

(* A miner that is not out has a file, unless a write was lost.            *)
LEMMA OutBefore ==
  ASSUME IniInv, NEW p \in Ini!Program, iniLines = Ini!Absent, ~iniMishap
  PROVE  start[p].at = "out" \/ (p = "watchdog" /\ start[p].at = "load")
<1> QED BY DEF IniInv, Identity, Untouched, Ini!Program

(* What is read of any file is a number.                                   *)
LEMMA ValuesNat ==
  ASSUME IniInv, NEW section, NEW key
  PROVE  Ini!Value(section, key) \in Nat
<1> DEFINE hits == {i \in DOMAIN iniLines : Ini!IsSet(iniLines[i], section, key)}
<1>1. iniLines \in Text
    BY WholeIsText DEF IniInv, BrokenText
<1>2. \A i \in DOMAIN iniLines : i \in Nat /\ iniLines[i].value \in Nat
  <2>1. DOMAIN iniLines = 1..Len(iniLines) /\ Len(iniLines) \in Nat
        /\ \A i \in 1..Len(iniLines) : iniLines[i] \in LineType
      BY <1>1 DEF Text
  <2> QED BY <2>1 DEF LineType
<1>3. Ini!Value(section, key) = IF hits = {} THEN 0 ELSE iniLines[Ini!Min(hits)].value
    BY DEF Ini!Value
<1>4. CASE hits # {}
  <2>1. hits \in SUBSET Nat
      BY <1>2
  <2>2. PICK i \in hits : \A j \in hits : i <= j
    <3> HIDE DEF hits
    <3> QED BY <1>4, <2>1, LeastNat
  <2>3. Ini!Min(hits) \in hits
    <3> HIDE DEF hits
    <3> QED BY <2>2 DEF Ini!Min
  <2> QED BY <1>2, <1>3, <1>4, <2>3
<1> QED BY <1>3, <1>4

(* A program that goes to set things, none of them the tracker id.         *)
LEMMA GoesToSet ==
  ASSUME IniInv, start["miner"].at \in {"wallet", "names"},
         NEW todo \in Seq(Entry), NEW next \in {"names", "load"},
         KeysOf(todo) \subseteq {"address", "worker", "name"},
         Ini!Sets("miner", todo, next), fresh' \in Nat,
         UNCHANGED <<iniLines, saved, used, iniMishap>>,
         ~iniMishap /\ WholeText(iniLines) =>
            /\ iniLines[1].value # 0 \/ "address" \in KeysOf(todo)
            /\ next = "load" => /\ iniLines[2].value # 0 \/ "worker" \in KeysOf(todo)
                                /\ iniLines[4].value # 0 \/ "name" \in KeysOf(todo)
            /\ used.names # {} => KeysOf(todo) = {}
  PROVE  IniInv'
<1> DEFINE step == IF todo = <<>> THEN next ELSE "read"
           r == [at |-> step, todo |-> todo, text |-> start["miner"].text, next |-> next,
                 tracker |-> start["miner"].tracker, name |-> start["miner"].name]
<1>1. "miner" \in Ini!Program
    BY DEF Ini!Program
<1>2. start' = [start EXCEPT !["miner"] = r]
    BY <1>1, GoesTo DEF Ini!Sets
<1>3. /\ r \in RunType /\ r.at = step /\ r.todo = todo /\ r.next = next
      /\ step \in {"names", "load", "read"}
    BY <1>1, RunFacts DEF RunType
<1>4. todo = <<>> => KeysOf(todo) = {}
    BY KeysOfNone
<1> HIDE DEF r
<1>5. Steady("miner", r)
    BY <1>3 DEF Steady, Setting
<1>6. ~iniMishap => iniLines # Ini!Absent
    BY <1>1, OutBefore
<1>7. ASSUME ~iniMishap, WholeText(iniLines)
      PROVE  /\ Ready(r, iniLines) /\ MinerReady(r, iniLines)
             /\ used.names # {} => KeysOf(r.todo) \subseteq {"tracker"}
  <2>1. /\ iniLines[1].key = "address" /\ iniLines[2].key = "worker"
        /\ iniLines[4].key = "name"
      BY <1>7, WholeLines
  <2>2. Ready(r, iniLines)
      BY <1>3 DEF Ready, Setting
  <2>3. MinerReady(r, iniLines)
      BY <1>3, <1>4, <1>7, <2>1 DEF MinerReady, Nears, Setting, Will
  <2> QED BY <1>3, <1>7, <2>2, <2>3
<1>8. iniMishap' = iniMishap /\ iniMishap' \in BOOLEAN
    BY DEF IniInv
<1>9. ~iniMishap' => /\ ~iniMishap
                     /\ iniLines = Ini!Absent =>
                           r.at = "out" \/ ("miner" = "watchdog" /\ r.at = "load")
                     /\ WholeText(iniLines) =>
                           /\ Ready(r, iniLines)
                           /\ "miner" = "miner" =>
                                 /\ MinerReady(r, iniLines)
                                 /\ used.names # {} => KeysOf(r.todo) \subseteq {"tracker"}
    BY <1>6, <1>7, <1>8
<1> QED BY <1>1, <1>2, <1>5, <1>8, <1>9, ProgramMoves

LEMMA IniWallet ==
  ASSUME IniInv, NEW p \in Ini!Program, NEW asked \in BOOLEAN, NEW typed \in BOOLEAN,
         Ini!EnsureWallet(p, asked, typed)
  PROVE  IniInv'
<1> DEFINE wallet == IF Ini!NeedsWallet THEN Ini!SavedWallet(typed) ELSE <<>>
           todo == IF typed THEN wallet \o Ini!AppliedName ELSE wallet
           next == IF typed THEN "load" ELSE "names"
           a == <<"account", "address", Ini!TypedWallet>>
           w == <<"account", "worker", Ini!TypedName>>
           m == <<"monitoring", "name", Ini!TypedName>>
<1>1. /\ start[p].at = "wallet" /\ Ini!Sets(p, todo, next)
      /\ typed => Ini!NeedsWallet \/ Ini!Value("account", "worker") = 0
      /\ fresh' \in {Ini!TypedName, Ini!TypedWallet, fresh}
      /\ UNCHANGED <<iniLines, starts, saved, used, iniMishap>>
    BY DEF Ini!EnsureWallet
<1>2. p = "miner"
  <2>1. Steady(p, start[p])
      BY RunFacts
  <2> QED BY <1>1, <2>1 DEF Steady, Ini!Program
<1>3. fresh' \in Nat /\ fresh \in Nat /\ Ini!TypedWallet \in Nat \ {0} /\ Ini!TypedName \in Nat \ {0}
    BY <1>1 DEF IniInv, Ini!TypedWallet, Ini!TypedName
<1>4. a \in Entry /\ w \in Entry /\ m \in Entry
    BY <1>3 DEF Entry
<1>5. a[2] = "address" /\ w[2] = "worker" /\ m[2] = "name"
    OBVIOUS
<1> DEFINE la == <<a>>
           lw == <<w>>
           lm == <<m>>
           none == <<>>
<1>6. Ini!AppliedName = lw \o lm
    BY DEF Ini!AppliedName
<1>7. Ini!SavedWallet(typed) = la \o IF typed THEN lw ELSE none
    BY DEF Ini!SavedWallet
<1> HIDE DEF a, w, m
<1>8. /\ la \in Seq(Entry) /\ KeysOf(la) = {"address"}
      /\ lw \in Seq(Entry) /\ KeysOf(lw) = {"worker"}
      /\ lm \in Seq(Entry) /\ KeysOf(lm) = {"name"}
      /\ none \in Seq(Entry) /\ KeysOf(none) = {}
  <2>1. la \in Seq(Entry) /\ KeysOf(la) = {"address"}
      BY <1>4, <1>5, KeysOfOne
  <2>2. lw \in Seq(Entry) /\ KeysOf(lw) = {"worker"}
      BY <1>4, <1>5, KeysOfOne
  <2>3. lm \in Seq(Entry) /\ KeysOf(lm) = {"name"}
      BY <1>4, <1>5, KeysOfOne
  <2>4. none \in Seq(Entry) /\ KeysOf(none) = {}
      BY KeysOfNone
  <2> HIDE DEF la, lw, lm, none
  <2> QED BY <2>1, <2>2, <2>3, <2>4
<1> HIDE DEF la, lw, lm
<1>9. /\ Ini!AppliedName \in Seq(Entry) /\ KeysOf(Ini!AppliedName) = {"worker", "name"}
  <2>1. KeysOf(lw \o lm) = KeysOf(lw) \cup KeysOf(lm) /\ lw \o lm \in Seq(Entry)
      BY <1>8, KeysJoin
  <2> QED BY <1>6, <1>8, <2>1
<1>10. /\ Ini!SavedWallet(typed) \in Seq(Entry)
       /\ KeysOf(Ini!SavedWallet(typed)) = {"address"} \cup IF typed THEN {"worker"} ELSE {}
  <2> DEFINE t == IF typed THEN lw ELSE none
  <2>1. t \in Seq(Entry) /\ KeysOf(t) = IF typed THEN {"worker"} ELSE {}
    <3> HIDE DEF none
    <3> QED BY <1>8
  <2>2. Ini!SavedWallet(typed) = la \o t
      BY <1>7
  <2> HIDE DEF t, none
  <2>3. KeysOf(la \o t) = KeysOf(la) \cup KeysOf(t) /\ la \o t \in Seq(Entry)
      BY <1>8, <2>1, KeysJoin
  <2> QED BY <1>8, <2>1, <2>2, <2>3
<1>11. /\ wallet \in Seq(Entry)
       /\ KeysOf(wallet) = IF Ini!NeedsWallet
                           THEN {"address"} \cup IF typed THEN {"worker"} ELSE {} ELSE {}
    BY <1>8, <1>10
<1> HIDE DEF wallet
<1>12. /\ todo \in Seq(Entry)
       /\ KeysOf(todo) = KeysOf(wallet) \cup IF typed THEN {"worker", "name"} ELSE {}
  <2>1. CASE typed
    <3>1. KeysOf(wallet \o Ini!AppliedName) = KeysOf(wallet) \cup KeysOf(Ini!AppliedName)
          /\ wallet \o Ini!AppliedName \in Seq(Entry)
        BY <1>9, <1>11, KeysJoin
    <3> QED BY <1>9, <2>1, <3>1
  <2>2. CASE ~typed
      BY <1>11, <2>2
  <2> QED BY <2>1, <2>2
<1> HIDE DEF todo
<1>13. KeysOf(todo) \subseteq {"address", "worker", "name"}
    BY <1>11, <1>12
<1>14. ASSUME ~iniMishap, WholeText(iniLines)
       PROVE  /\ iniLines[1].value # 0 \/ "address" \in KeysOf(todo)
              /\ next = "load" => /\ iniLines[2].value # 0 \/ "worker" \in KeysOf(todo)
                                  /\ iniLines[4].value # 0 \/ "name" \in KeysOf(todo)
              /\ used.names # {} => KeysOf(todo) = {}
  <2>1. /\ Ini!NeedsWallet <=> iniLines[1].value = 0
        /\ Ini!Value("account", "worker") = iniLines[2].value
      BY <1>14, WholeValues DEF Ini!NeedsWallet
  <2>2. iniLines[1].value # 0 \/ "address" \in KeysOf(todo)
      BY <1>11, <1>12, <2>1
  <2>3. typed => "worker" \in KeysOf(todo) /\ "name" \in KeysOf(todo)
      BY <1>12
  <2>4. ASSUME used.names # {} PROVE KeysOf(todo) = {}
    <3>1. Known(iniLines)
        BY <1>14, <2>4 DEF IniInv, Identity, InFile
    <3>2. ~Ini!NeedsWallet /\ ~typed
        BY <1>1, <2>1, <3>1 DEF Known
    <3> QED BY <1>11, <1>12, <3>2
  <2> QED BY <2>2, <2>3, <2>4
<1>15. next \in {"names", "load"}
    OBVIOUS
<1> HIDE DEF next
<1> QED BY <1>1, <1>2, <1>3, <1>12, <1>13, <1>14, <1>15, GoesToSet

LEMMA IniNames ==
  ASSUME IniInv, NEW p \in Ini!Program, Ini!EnsureWorkerId(p)
  PROVE  IniInv'
<1> DEFINE worker2 == Ini!Value("account", "worker")
           custom == Ini!Value("monitoring", "name")
           name == CASE worker2 # 0 -> worker2
                     [] worker2 = 0 /\ custom # 0 -> custom
                     [] worker2 = 0 /\ custom = 0 -> fresh + 1
           w == <<"account", "worker", name>>
           m == <<"monitoring", "name", name>>
           one == IF worker2 = 0 THEN <<w>> ELSE <<>>
           two == IF custom = 0 THEN <<m>> ELSE <<>>
           todo == one \o two
<1>1. /\ start[p].at = "names" /\ Ini!Sets(p, todo, "load")
      /\ fresh' \in {fresh, fresh + 1}
      /\ UNCHANGED <<iniLines, starts, saved, used, iniMishap>>
    BY DEF Ini!EnsureWorkerId
<1>2. p = "miner"
  <2>1. Steady(p, start[p])
      BY RunFacts
  <2> QED BY <1>1, <2>1 DEF Steady, Ini!Program
<1>3. fresh \in Nat /\ fresh' \in Nat
    BY <1>1 DEF IniInv
<1>4. worker2 \in Nat /\ custom \in Nat
    BY ValuesNat
<1>5. name \in Nat \ {0}
  <2> HIDE DEF worker2, custom
  <2> QED BY <1>3, <1>4
<1> HIDE DEF name
<1>6. w \in Entry /\ m \in Entry /\ w[2] = "worker" /\ m[2] = "name"
    BY <1>5 DEF Entry
<1> HIDE DEF w, m
<1>7. /\ <<w>> \in Seq(Entry) /\ KeysOf(<<w>>) = {"worker"}
      /\ <<m>> \in Seq(Entry) /\ KeysOf(<<m>>) = {"name"}
      /\ <<>> \in Seq(Entry) /\ KeysOf(<<>>) = {}
    BY <1>6, KeysOfOne, KeysOfNone
<1>8. /\ one \in Seq(Entry) /\ KeysOf(one) = IF worker2 = 0 THEN {"worker"} ELSE {}
      /\ two \in Seq(Entry) /\ KeysOf(two) = IF custom = 0 THEN {"name"} ELSE {}
  <2> HIDE DEF worker2, custom
  <2> QED BY <1>7
<1> HIDE DEF one, two
<1>9. todo \in Seq(Entry) /\ KeysOf(todo) = KeysOf(one) \cup KeysOf(two)
    BY <1>8, KeysJoin
<1> HIDE DEF todo
<1>10. KeysOf(todo) \subseteq {"address", "worker", "name"}
    BY <1>8, <1>9
<1>11. ASSUME ~iniMishap, WholeText(iniLines)
       PROVE  /\ iniLines[1].value # 0 \/ "address" \in KeysOf(todo)
              /\ iniLines[2].value # 0 \/ "worker" \in KeysOf(todo)
              /\ iniLines[4].value # 0 \/ "name" \in KeysOf(todo)
              /\ used.names # {} => KeysOf(todo) = {}
  <2>1. worker2 = iniLines[2].value /\ custom = iniLines[4].value
      BY <1>11, WholeValues
  <2>2. iniLines[1].value # 0
    <3>1. MinerReady(start["miner"], iniLines) /\ KeysOf(start["miner"].todo) = {}
        BY <1>1, <1>2, <1>11, RunFacts DEF IniInv, Identity, Setting
    <3> QED BY <1>1, <1>2, <3>1 DEF MinerReady, Nears, Will
  <2> HIDE DEF worker2, custom
  <2>3. used.names # {} => iniLines[2].value # 0 /\ iniLines[4].value # 0
      BY <1>11 DEF IniInv, Identity, InFile, Known
  <2> QED BY <1>8, <1>9, <2>1, <2>2, <2>3
<1> QED BY <1>1, <1>2, <1>3, <1>9, <1>10, <1>11, GoesToSet

LEMMA ExampleWhole == WholeText(Ini!Example)
<1>1. Ini!Example \in [1..6 -> LineType]
    BY DEF Ini!Example, Ini!Line, LineType
<1> QED BY <1>1 DEF WholeText

LEMMA EmptyHanded ==
  ASSUME IniInv, NEW p \in Ini!Program,
         NEW step \in {"out", "wallet", "names", "read", "write", "load", "on", "mining"},
         Ini!Goes(p, step, <<>>, "out")
  PROVE  start' = [start EXCEPT ![p] =
                     [at |-> step, todo |-> <<>>, text |-> start[p].text, next |-> "out",
                      tracker |-> start[p].tracker, name |-> start[p].name]]
<1>1. \A todo \in Seq(Entry), next \in {"out", "names", "load", "on"} :
          Ini!Goes(p, step, todo, next) =>
             start' = [start EXCEPT ![p] =
                         [at |-> step, todo |-> todo, text |-> start[p].text, next |-> next,
                          tracker |-> start[p].tracker, name |-> start[p].name]]
    BY GoesTo
<1> QED BY <1>1, KeysOfNone

LEMMA IniBegins ==
  ASSUME IniInv, Template = "example", NEW p \in Ini!Program, Ini!Start(p)
  PROVE  IniInv'
<1> DEFINE step == IF p = "miner" THEN "wallet" ELSE "load"
           r == [at |-> step, todo |-> <<>>, text |-> start[p].text, next |-> "out",
                 tracker |-> start[p].tracker, name |-> start[p].name]
<1>1. /\ start[p].at = "out" /\ UNCHANGED <<fresh, saved, used, iniMishap>>
      /\ iniLines' = IF p = "miner" /\ iniLines = Ini!Absent THEN Ini!Shipped ELSE iniLines
      /\ p = "miner" \/ p = "watchdog"
    BY DEF Ini!Start, Ini!Program
<1>2. start' = [start EXCEPT ![p] = r]
  <2>1. Ini!Goes(p, step, <<>>, "out")
      BY DEF Ini!Start
  <2>2. step \in {"out", "wallet", "names", "read", "write", "load", "on", "mining"}
      OBVIOUS
  <2> HIDE DEF step
  <2> QED BY <2>1, <2>2, EmptyHanded
<1>3. r \in RunType /\ r.at = step /\ r.todo = <<>> /\ KeysOf(r.todo) = {}
    BY KeysOfNone, RunFacts DEF RunType
<1> HIDE DEF r
<1>4. Steady(p, r)
    BY <1>1, <1>3 DEF Steady, Setting
<1>5. \A f : Ready(r, f) /\ (p = "miner" => MinerReady(r, f))
    BY <1>3 DEF Ready, MinerReady, Nears, Setting
<1>6. fresh' \in Nat /\ iniMishap' \in BOOLEAN /\ iniMishap' = iniMishap
    BY <1>1 DEF IniInv
<1>7. CASE iniLines' = iniLines
  <2>1. ~iniMishap' => /\ ~iniMishap
                       /\ iniLines = Ini!Absent =>
                             r.at = "out" \/ (p = "watchdog" /\ r.at = "load")
                       /\ WholeText(iniLines) =>
                             /\ Ready(r, iniLines)
                             /\ p = "miner" =>
                                   /\ MinerReady(r, iniLines)
                                   /\ used.names # {} => KeysOf(r.todo) \subseteq {"tracker"}
    <3>1. p = "miner" => iniLines # Ini!Absent
      <4>1. p = "miner" /\ iniLines = Ini!Absent => iniLines' = Ini!Example
          BY <1>1 DEF Ini!Shipped
      <4> QED BY <1>7, <4>1, ExampleWhole, AbsentIsBroken
    <3> QED BY <1>1, <1>3, <1>5, <1>6, <3>1
  <2> QED BY <1>1, <1>2, <1>4, <1>6, <1>7, <2>1, ProgramMoves
<1>8. CASE p = "miner" /\ iniLines = Ini!Absent
  <2>1. iniLines' = Ini!Example /\ WholeText(iniLines') /\ iniLines' # Ini!Absent
      BY <1>1, <1>8, ExampleWhole, AbsentIsBroken DEF Ini!Shipped
  <2>2. /\ start' \in [Ini!Program -> RunType] /\ start'["miner"] = r
        /\ start'["watchdog"] = start["watchdog"] /\ "miner" \in Ini!Program
        /\ \A q \in Ini!Program : Steady(q, start'[q])
        /\ \A q \in Ini!Program : q = "miner" \/ q = "watchdog"
      BY <1>2, <1>3, <1>4, <1>8 DEF IniInv, Ini!Program
  <2>3. ASSUME ~iniMishap' PROVE Identity'
    <3>1. Untouched
        BY <1>6, <1>8, <2>3 DEF IniInv, Identity
    <3>2. InFile(iniLines)'
        BY <1>1, <3>1 DEF InFile, Untouched
    <3>3. Ready(start'["watchdog"], iniLines')
        BY <2>2, <3>1 DEF Untouched, Ready, Setting
    <3>4. \A q \in Ini!Program : Ready(start'[q], iniLines')
        BY <1>5, <2>2, <3>3
    <3>5. MinerReady(start'["miner"], iniLines') /\ KeysOf(start'["miner"].todo) = {}
        BY <1>3, <1>5, <1>8, <2>2
    <3> QED BY <2>1, <3>2, <3>4, <3>5 DEF Identity
  <2>4. used' = [trackers |-> used'.trackers, names |-> used'.names] /\ saved' \in Nat
      BY <1>1 DEF IniInv
  <2> QED BY <1>6, <2>1, <2>2, <2>3, <2>4 DEF IniInv
<1> QED BY <1>1, <1>7, <1>8

LEMMA IniReads ==
  ASSUME IniInv, NEW p \in Ini!Program, Ini!Read(p)
  PROVE  IniInv'
<1> DEFINE e == Head(start[p].todo)
           edited == Ini!Edited(e[1], e[2], e[3])
           r == [start[p] EXCEPT !.at = "write", !.text = edited]
<1>1. /\ start[p].at = "read" /\ UNCHANGED <<iniLines, fresh, saved, used, iniMishap>>
      /\ start' = [start EXCEPT ![p] = r]
    BY DEF Ini!Read, IniInv
<1>2. start[p] \in RunType /\ Steady(p, start[p]) /\ start[p].todo \in Seq(Entry)
      /\ Setting(start[p]) /\ start[p].todo # <<>>
    BY <1>1, RunFacts DEF Steady, Setting
<1>3. e \in Entry
    BY <1>2, KeysPass
<1>4. (WholeText(edited) \/ BrokenText(edited)) /\ edited \in Text
      /\ (WholeText(iniLines) => edited = Put(iniLines, e))
  <2> HIDE DEF e
  <2>1. CASE WholeText(iniLines)
      BY <1>3, <2>1, EditedWhole, PutWhole, WholeIsText
  <2>2. CASE BrokenText(iniLines) /\ ~WholeText(iniLines)
      BY <1>3, <2>2, EditedBroken DEF BrokenText
  <2> QED BY <2>1, <2>2 DEF IniInv
<1> HIDE DEF edited
<1>5. /\ r \in RunType /\ r.at = "write" /\ r.text = edited /\ r.todo = start[p].todo
      /\ r.next = start[p].next /\ r.tracker = start[p].tracker /\ r.name = start[p].name
    BY <1>2, <1>4 DEF RunType
<1> HIDE DEF r
<1>6. Steady(p, r)
    BY <1>1, <1>2, <1>4, <1>5 DEF Steady, Setting
<1>7. ASSUME ~iniMishap PROVE iniLines # Ini!Absent
    BY <1>1, <1>7, OutBefore
<1>8. ASSUME ~iniMishap, WholeText(iniLines)
      PROVE  /\ Ready(r, iniLines)
             /\ p = "miner" => /\ MinerReady(r, iniLines)
                               /\ used.names # {} => KeysOf(r.todo) \subseteq {"tracker"}
  <2>1. Identity
      BY <1>8 DEF IniInv
  <2>2. Ready(start[p], iniLines)
      BY <1>8, <2>1 DEF Identity
  <2>3. Ready(r, iniLines)
      BY <1>2, <1>4, <1>5, <1>8, <2>2 DEF Ready, Setting
  <2>4. ASSUME p = "miner"
        PROVE  /\ MinerReady(r, iniLines)
               /\ used.names # {} => KeysOf(r.todo) \subseteq {"tracker"}
    <3>1. /\ MinerReady(start[p], iniLines)
          /\ used.names # {} => KeysOf(start[p].todo) \subseteq {"tracker"}
        BY <1>8, <2>1, <2>4 DEF Identity
    <3> QED BY <1>1, <1>5, <3>1 DEF MinerReady, Nears, Will, Setting
  <2> QED BY <2>3, <2>4
<1>9. fresh' \in Nat /\ iniMishap' \in BOOLEAN /\ iniMishap' = iniMishap
    BY <1>1 DEF IniInv
<1>10. ~iniMishap' => /\ ~iniMishap
                      /\ iniLines = Ini!Absent =>
                            r.at = "out" \/ (p = "watchdog" /\ r.at = "load")
                      /\ WholeText(iniLines) =>
                            /\ Ready(r, iniLines)
                            /\ p = "miner" =>
                                  /\ MinerReady(r, iniLines)
                                  /\ used.names # {} => KeysOf(r.todo) \subseteq {"tracker"}
    BY <1>7, <1>8, <1>9
<1> QED BY <1>1, <1>6, <1>9, <1>10, ProgramMoves

LEMMA IniLoads ==
  ASSUME IniInv, NEW p \in Ini!Program, Ini!Load(p)
  PROVE  IniInv'
<1> DEFINE known == Ini!Value("monitoring", "tracker")
           id == IF known = 0 THEN fresh + 1 ELSE known
           e == <<"monitoring", "tracker", id>>
           missing == IF known = 0 THEN <<e>> ELSE <<>>
           name == Ini!Value("monitoring", "name")
           step == IF known = 0 THEN "read" ELSE "on"
           r == [start[p] EXCEPT !.todo = missing, !.tracker = id, !.next = "on",
                                 !.name = name, !.at = step]
<1>1. /\ start[p].at = "load" /\ iniLines # Ini!Absent
      /\ UNCHANGED <<iniLines, saved, used, iniMishap>>
      /\ start' = [start EXCEPT ![p] = r]
      /\ fresh' \in {fresh, fresh + 1}
    BY DEF Ini!Load, IniInv
<1>2. start[p] \in RunType /\ KeysOf(start[p].todo) = {} /\ start[p].todo = <<>>
    BY <1>1, RunFacts DEF Setting
<1>3. known \in Nat /\ name \in Nat /\ fresh \in Nat
    BY ValuesNat DEF IniInv
<1>10. WholeText(iniLines) => known = iniLines[5].value /\ name = iniLines[4].value
    BY WholeValues
<1> HIDE DEF known, name
<1>4. id \in Nat \ {0}
    BY <1>3
<1> HIDE DEF id
<1>5. e \in Entry /\ e[2] = "tracker" /\ e = <<"monitoring", "tracker", id>>
    BY <1>4 DEF Entry
<1> HIDE DEF e
<1>6. /\ missing \in Seq(Entry) /\ KeysOf(missing) \subseteq {"tracker"}
      /\ missing # <<>> <=> known = 0
      /\ known = 0 => missing = <<e>>
      /\ step \in {"read", "on"} /\ (step = "read" <=> known = 0)
  <2>1. <<e>> \in Seq(Entry) /\ <<e>> # <<>> /\ KeysOf(<<e>>) = {"tracker"}
        /\ <<>> \in Seq(Entry) /\ KeysOf(<<>>) = {}
      BY <1>5, KeysOfOne, KeysOfNone
  <2> QED BY <2>1
<1> HIDE DEF missing, step
<1>7. /\ r \in RunType /\ r.at = step /\ r.todo = missing /\ r.next = "on"
      /\ r.tracker = id /\ r.name = name
    BY <1>2, <1>3, <1>4, <1>6 DEF RunType
<1> HIDE DEF r
<1>8. Steady(p, r)
    BY <1>6, <1>7 DEF Steady, Setting
<1>9. ASSUME ~iniMishap, WholeText(iniLines)
      PROVE  /\ Ready(r, iniLines)
             /\ p = "miner" => /\ MinerReady(r, iniLines)
                               /\ used.names # {} => KeysOf(r.todo) \subseteq {"tracker"}
  <2>1. Ready(r, iniLines)
      BY <1>4, <1>5, <1>6, <1>7, <1>9, <1>10 DEF Ready, Setting
  <2>2. ASSUME p = "miner" PROVE MinerReady(r, iniLines)
    <3>1. MinerReady(start[p], iniLines)
        BY <1>9, <2>2 DEF IniInv, Identity
    <3>2. Known(iniLines)
        BY <1>1, <1>2, <3>1 DEF MinerReady, Nears, Will, Known
    <3>3. r.at = "on" => id = known /\ known # 0
        BY <1>6, <1>7 DEF id
    <3>4. r.at # "names" /\ r.at # "load" /\ r.next # "names" /\ r.next # "load"
        BY <1>6, <1>7
    <3> QED BY <1>7, <1>9, <1>10, <3>2, <3>3, <3>4 DEF MinerReady, Nears
  <2> QED BY <1>6, <1>7, <2>1, <2>2
<1>11. fresh' \in Nat /\ iniMishap' \in BOOLEAN /\ iniMishap' = iniMishap
    BY <1>1, <1>3 DEF IniInv
<1>12. ~iniMishap' => /\ ~iniMishap
                      /\ iniLines = Ini!Absent =>
                            r.at = "out" \/ (p = "watchdog" /\ r.at = "load")
                      /\ WholeText(iniLines) =>
                            /\ Ready(r, iniLines)
                            /\ p = "miner" =>
                                  /\ MinerReady(r, iniLines)
                                  /\ used.names # {} => KeysOf(r.todo) \subseteq {"tracker"}
    BY <1>1, <1>9, <1>11
<1> QED BY <1>1, <1>8, <1>11, <1>12, ProgramMoves

(* A program that gives up, and one whose write is refused.                *)
LEMMA IniFails ==
  ASSUME IniInv, NEW p \in Ini!Program, Ini!Fails(p), iniMishap' \in BOOLEAN,
         ~iniMishap' => ~iniMishap, UNCHANGED <<iniLines, fresh, saved, used>>
  PROVE  IniInv'
<1> DEFINE r == Ini!Idle
<1>1. start' = [start EXCEPT ![p] = r]
    BY DEF Ini!Fails
<1>2. /\ Steady(p, r) /\ KeysOf(r.todo) = {} /\ r.at = "out"
      /\ \A f : Ready(r, f) /\ MinerReady(r, f)
    BY IdleSteady
<1> HIDE DEF r
<1>3. fresh' \in Nat
    BY DEF IniInv
<1>4. ~iniMishap' => /\ ~iniMishap
                     /\ iniLines = Ini!Absent =>
                           r.at = "out" \/ (p = "watchdog" /\ r.at = "load")
                     /\ WholeText(iniLines) =>
                           /\ Ready(r, iniLines)
                           /\ p = "miner" =>
                                 /\ MinerReady(r, iniLines)
                                 /\ used.names # {} => KeysOf(r.todo) \subseteq {"tracker"}
    BY <1>2
<1> QED BY <1>1, <1>2, <1>3, <1>4, ProgramMoves

LEMMA IniDenied ==
  ASSUME IniInv, NEW p \in Ini!Program, Ini!Denied(p)
  PROVE  IniInv'
<1>1. iniMishap' = TRUE /\ UNCHANGED <<iniLines, fresh, saved, used>>
    BY DEF Ini!Denied
<1>2. CASE Ini!Fails(p)
    BY <1>1, <1>2, IniFails
<1>3. CASE Ini!Goes(p, "on", <<>>, "on")
  <2> DEFINE r == [at |-> "on", todo |-> <<>>, text |-> start[p].text, next |-> "on",
                   tracker |-> start[p].tracker, name |-> start[p].name]
  <2>1. start' = [start EXCEPT ![p] = r]
      BY <1>3, KeysOfNone, GoesTo
  <2>2. r \in RunType /\ r.at = "on" /\ r.todo = <<>>
      BY KeysOfNone, RunFacts DEF RunType
  <2>3. p = "watchdog" => start[p].at \in {"out", "load", "on", "read", "write"}
      BY RunFacts DEF Steady
  <2> HIDE DEF r
  <2>4. Steady(p, r)
      BY <2>2 DEF Steady, Setting
  <2>5. fresh' \in Nat
      BY <1>1 DEF IniInv
  <2> QED BY <1>1, <2>1, <2>4, <2>5, ProgramMoves
<1> QED BY <1>2, <1>3 DEF Ini!Denied

(* What one written value changes of a whole file.                         *)
LEMMA PutValues ==
  ASSUME NEW f, WholeText(f), NEW e \in Entry
  PROVE  /\ WholeText(Put(f, e))
         /\ e[2] \in {"address", "worker", "name", "tracker"} /\ e[3] \in Nat \ {0}
         /\ Put(f, e)[1].value = IF e[2] = "address" THEN e[3] ELSE f[1].value
         /\ Put(f, e)[2].value = IF e[2] = "worker" THEN e[3] ELSE f[2].value
         /\ Put(f, e)[4].value = IF e[2] = "name" THEN e[3] ELSE f[4].value
         /\ Put(f, e)[5].value = IF e[2] = "tracker" THEN e[3] ELSE f[5].value
<1>1. e[2] \in {"address", "worker", "name", "tracker"} /\ e[3] \in Nat \ {0}
    BY DEF Entry
<1>2. /\ f[1].key = "address" /\ f[2].key = "worker"
      /\ f[4].key = "name" /\ f[5].key = "tracker"
    BY WholeLines
<1>3. \A i \in 1..6 : Put(f, e)[i].value = IF f[i].key = e[2] THEN e[3] ELSE f[i].value
    BY PutWhole
<1>4. /\ Put(f, e)[1].value = IF f[1].key = e[2] THEN e[3] ELSE f[1].value
      /\ Put(f, e)[2].value = IF f[2].key = e[2] THEN e[3] ELSE f[2].value
      /\ Put(f, e)[4].value = IF f[4].key = e[2] THEN e[3] ELSE f[4].value
      /\ Put(f, e)[5].value = IF f[5].key = e[2] THEN e[3] ELSE f[5].value
    BY <1>3
<1> QED BY <1>1, <1>2, <1>4, PutWhole

(* The same program goes on with what is left to set.                      *)
LEMMA WillStay ==
  ASSUME NEW f, WholeText(f), NEW s \in Seq(Entry), s # <<>>,
         NEW r, NEW q, r.todo = s, q.todo = Tail(s), NEW k \in {1, 2, 4}, Will(r, f, k)
  PROVE  Will(q, Put(f, Head(s)), k)
<1> DEFINE e == Head(s)
           g == Put(f, e)
<1>1. e \in Entry /\ KeysOf(s) = {e[2]} \cup KeysOf(Tail(s))
    BY KeysPass
<1> HIDE DEF e
<1>2. /\ WholeText(g) /\ e[3] # 0
      /\ \A i \in 1..6 : g[i].value = IF f[i].key = e[2] THEN e[3] ELSE f[i].value
    BY <1>1, PutWhole, PutValues
<1> HIDE DEF g
<1>3. f[k].key = g[k].key
    BY <1>2 DEF WholeText
<1>4. g[k].value = IF f[k].key = e[2] THEN e[3] ELSE f[k].value
    BY <1>2
<1>5. Will(q, g, k)
    BY <1>1, <1>2, <1>3, <1>4 DEF Will
<1> QED BY <1>5 DEF g, e

LEMMA IniWrites ==
  ASSUME IniInv, NEW p \in Ini!Program, Ini!Write(p)
  PROVE  IniInv'
<1> DEFINE f == iniLines
           todo == start[p].todo
           e == Head(todo)
           rest == Tail(todo)
           next == start[p].next
           step == IF rest = <<>> THEN next ELSE "read"
           r == [start[p] EXCEPT !.todo = rest, !.text = <<>>, !.at = step]
<1>1. /\ start[p].at = "write" /\ iniLines' = start[p].text
      /\ start' = [start EXCEPT ![p] = r]
      /\ saved' = IF e[2] = "address" THEN e[3] ELSE saved
      /\ iniMishap' = (iniMishap \/ \E o \in Ini!Program \ {p} : start[o].todo # <<>>)
      /\ UNCHANGED <<fresh, used>>
    BY DEF Ini!Write, IniInv
<1>2. /\ start[p] \in RunType /\ Steady(p, start[p]) /\ Setting(start[p])
      /\ todo \in Seq(Entry) /\ todo # <<>> /\ next \in {"names", "load", "on"}
      /\ WholeText(start[p].text) \/ BrokenText(start[p].text)
      /\ start \in [Ini!Program -> RunType] /\ start[p].tracker \in Nat
    BY <1>1, RunFacts DEF Steady, Setting, IniInv
<1>3. e \in Entry /\ rest \in Seq(Entry) /\ KeysOf(todo) = {e[2]} \cup KeysOf(rest)
    BY <1>2, KeysPass
<1>4. e[2] \in {"address", "worker", "name", "tracker"} /\ e[3] \in Nat \ {0}
    BY <1>3 DEF Entry
<1>5. step \in {"names", "load", "on", "read"} /\ (step = "read" <=> rest # <<>>)
      /\ (step # "read" => step = next)
    BY <1>2
<1>6. <<>> \in Text
    BY DEF Text
<1>7. /\ r \in RunType /\ r.at = step /\ r.todo = rest /\ r.next = next
      /\ r.tracker = start[p].tracker /\ r.name = start[p].name
  <2> HIDE DEF rest, step
  <2> QED BY <1>2, <1>3, <1>5, <1>6 DEF RunType
<1>13. \A k \in {1, 2, 4} : WholeText(f) /\ Will(start[p], f, k) => Will(r, Put(f, e), k)
  <2> HIDE DEF r
  <2> QED BY <1>2, <1>7, WillStay
<1> HIDE DEF r, step, rest, e, todo, next
<1>8. Steady(p, r)
  <2>1. p = "watchdog" => next = "on"
      BY <1>2 DEF Steady, next
  <2>2. next # "on" => "tracker" \notin KeysOf(rest)
      BY <1>2, <1>3 DEF Steady, next, todo
  <2> QED BY <1>2, <1>5, <1>7, <2>1, <2>2 DEF Steady, Setting
<1>9. /\ start' \in [Ini!Program -> RunType] /\ start'[p] = r
      /\ \A q \in Ini!Program \ {p} : start'[q] = start[q]
      /\ \A q \in Ini!Program : Steady(q, start'[q])
    BY <1>1, <1>2, <1>7, <1>8 DEF IniInv
<1>10. saved' \in Nat /\ fresh' \in Nat /\ iniMishap' \in BOOLEAN
       /\ used' = [trackers |-> used'.trackers, names |-> used'.names]
    BY <1>1, <1>4 DEF IniInv
<1>11. ASSUME ~iniMishap' PROVE Identity'
  <2> DEFINE g == Put(f, e)
  <2>1. ~iniMishap /\ \A o \in Ini!Program \ {p} : start[o].todo = <<>> /\ ~Setting(start[o])
    <3>1. ~iniMishap /\ \A o \in Ini!Program \ {p} : start[o].todo = <<>>
        BY <1>1, <1>11 DEF IniInv
    <3> QED BY <3>1, RunFacts DEF Steady
  <2>2. Identity /\ f # Ini!Absent /\ WholeText(f)
    <3>1. Identity /\ f # Ini!Absent
        BY <1>1, <2>1, OutBefore DEF IniInv
    <3> QED BY <3>1 DEF Identity
  <2>3. iniLines' = g
      BY <1>1, <2>2 DEF Identity, Ready, e, todo
  <2>4. /\ WholeText(g) /\ g # Ini!Absent
        /\ g[1].value = IF e[2] = "address" THEN e[3] ELSE f[1].value
        /\ g[2].value = IF e[2] = "worker" THEN e[3] ELSE f[2].value
        /\ g[4].value = IF e[2] = "name" THEN e[3] ELSE f[4].value
        /\ g[5].value = IF e[2] = "tracker" THEN e[3] ELSE f[5].value
      BY <1>3, <2>2, PutValues, WholeIsText
  <2> HIDE DEF g
  <2>5. next = "on" => /\ e[2] = "tracker" /\ e[3] = start[p].tracker /\ rest = <<>>
                       /\ f[5].value = 0
    <3> SUFFICES ASSUME next = "on"
                 PROVE  e[2] = "tracker" /\ e[3] = start[p].tracker /\ rest = <<>>
                        /\ f[5].value = 0
        OBVIOUS
    <3> DEFINE t == <<"monitoring", "tracker", start[p].tracker>>
    <3>1. todo = <<t>> /\ f[5].value = 0 /\ start[p].tracker # 0
        BY <1>2, <2>2 DEF Identity, Ready, next, todo
    <3>2. t \in Entry /\ t[2] = "tracker" /\ t[3] = start[p].tracker
        BY <1>2, <3>1 DEF Entry
    <3> HIDE DEF t
    <3>3. e = t /\ rest = <<>>
        BY <3>1, <3>2, KeysOfOne DEF e, rest
    <3> QED BY <3>1, <3>2, <3>3
  <2>6. next # "on" => e[2] # "tracker"
      BY <1>2, <1>3 DEF Steady, next, todo
  <2>7. p = "watchdog" => next = "on"
      BY <1>2 DEF Steady, next
  <2>8. used.names # {} => e[2] = "tracker"
    <3>1. p = "miner" \/ p = "watchdog"
        BY DEF Ini!Program
    <3>2. p = "miner" /\ used.names # {} => KeysOf(todo) \subseteq {"tracker"}
        BY <2>2 DEF Identity, todo
    <3> QED BY <1>3, <2>5, <2>7, <3>1, <3>2
  <2>9. InFile(iniLines)'
    <3>1. saved' # 0 => g[1].value = saved'
        BY <1>1, <2>2, <2>4 DEF Identity, InFile
    <3>2. /\ used.names \subseteq {g[4].value}
          /\ used.names # {} => Known(g)
        BY <2>2, <2>4, <2>8 DEF Identity, InFile, Known
    <3>3. /\ used.trackers \subseteq {g[5].value}
          /\ used.trackers # {} => g[5].value # 0
        BY <1>4, <2>2, <2>4, <2>5, <2>6 DEF Identity, InFile
    <3> QED BY <1>1, <2>3, <3>1, <3>2, <3>3 DEF InFile
  <2>10. \A q \in Ini!Program : Ready(start'[q], g)
    <3>1. Ready(r, g)
        BY <1>5, <1>7, <2>5 DEF Ready, Setting
    <3>2. \A q \in Ini!Program \ {p} : Ready(start'[q], g)
        BY <1>9, <2>1 DEF Ready, Setting
    <3> QED BY <1>9, <3>1, <3>2
  <2>11. Known(f) => Known(g)
      BY <1>4, <2>4 DEF Known
  <2>12. ASSUME p = "miner"
         PROVE  /\ MinerReady(r, g)
                /\ used.names # {} => KeysOf(r.todo) \subseteq {"tracker"}
    <3>1. /\ MinerReady(start[p], f)
          /\ used.names # {} => KeysOf(todo) \subseteq {"tracker"}
        BY <2>2, <2>12 DEF Identity, todo
    <3>2. \A k \in {1, 2, 4} : Will(start[p], f, k) => Will(r, g, k)
        BY <1>13, <2>2 DEF g
    <3>3. ASSUME Nears(r, "names") PROVE Will(r, g, 1)
      <4>1. Nears(start[p], "names")
          BY <1>2, <1>5, <1>7, <3>3 DEF Nears, Setting, next
      <4> QED BY <3>1, <3>2, <4>1 DEF MinerReady
    <3>4. ASSUME Nears(r, "load") PROVE Will(r, g, 1) /\ Will(r, g, 2) /\ Will(r, g, 4)
      <4>1. Nears(start[p], "load")
          BY <1>2, <1>5, <1>7, <3>4 DEF Nears, Setting, next
      <4> QED BY <3>1, <3>2, <4>1 DEF MinerReady
    <3>5. ASSUME Nears(r, "on") PROVE Known(g) /\ r.name = g[4].value
      <4>1. Nears(start[p], "on") /\ next = "on"
          BY <1>2, <1>5, <1>7, <3>5 DEF Nears, Setting, next
      <4>2. Known(f) /\ start[p].name = f[4].value
          BY <3>1, <4>1 DEF MinerReady
      <4> QED BY <1>7, <2>4, <2>5, <2>11, <4>1, <4>2
    <3>6. ASSUME r.at = "on" PROVE r.tracker = g[5].value /\ g[5].value # 0
      <4>1. next = "on"
          BY <1>5, <1>7, <3>6
      <4> QED BY <1>4, <1>7, <2>4, <2>5, <4>1
    <3> QED BY <1>3, <1>7, <3>1, <3>3, <3>4, <3>5, <3>6 DEF MinerReady
  <2>13. ASSUME p = "watchdog"
         PROVE  /\ MinerReady(start'["miner"], g)
                /\ used.names # {} => KeysOf(start'["miner"].todo) \subseteq {"tracker"}
    <3> DEFINE m == start["miner"]
    <3>1. start'["miner"] = m /\ ~Setting(m) /\ e[2] = "tracker" /\ f[5].value = 0
        BY <1>9, <2>1, <2>5, <2>7, <2>13 DEF Ini!Program
    <3>2. /\ MinerReady(m, f)
          /\ used.names # {} => KeysOf(m.todo) \subseteq {"tracker"}
        BY <2>2 DEF Identity
    <3>3. \A k \in {1, 2, 4} : g[k].value = f[k].value /\ g[k].key = f[k].key
        BY <2>2, <2>4, <3>1, WholeLines
    <3>4. \A k \in {1, 2, 4} : Will(m, f, k) => Will(m, g, k)
        BY <3>3 DEF Will
    <3>5. Known(f) => Known(g)
        BY <2>11
    <3>6. m.at # "on"
        BY <3>1, <3>2 DEF MinerReady
    <3> HIDE DEF m
    <3>7. MinerReady(m, g)
        BY <3>1, <3>2, <3>3, <3>4, <3>5, <3>6 DEF MinerReady, Nears
    <3> QED BY <3>1, <3>2, <3>7
  <2>14. /\ MinerReady(start'["miner"], g)
         /\ used.names # {} => KeysOf(start'["miner"].todo) \subseteq {"tracker"}
    <3>1. p = "miner" \/ p = "watchdog"
        BY DEF Ini!Program
    <3> QED BY <1>9, <2>12, <2>13, <3>1
  <2> QED BY <1>1, <2>3, <2>4, <2>9, <2>10, <2>14 DEF Identity
<1>12. WholeText(iniLines') \/ BrokenText(iniLines')
    BY <1>1, <1>2
<1> QED BY <1>9, <1>10, <1>11, <1>12 DEF IniInv

LEMMA IniMines ==
  ASSUME IniInv, NEW p \in Ini!Program, Ini!Mine(p)
  PROVE  IniInv'
<1> DEFINE m == start["miner"]
           r == [at |-> "mining", todo |-> <<>>, text |-> m.text, next |-> "out",
                 tracker |-> m.tracker, name |-> m.name]
<1>1. /\ p = "miner" /\ m.at = "on" /\ "miner" \in Ini!Program
      /\ used' = [trackers |-> used.trackers \cup {m.tracker},
                  names |-> used.names \cup {m.name}]
      /\ UNCHANGED <<iniLines, fresh, saved, iniMishap>>
    BY DEF Ini!Mine
<1>2. start' = [start EXCEPT !["miner"] = r]
  <2>1. Ini!Goes("miner", "mining", <<>>, "out")
      BY <1>1 DEF Ini!Mine
  <2> QED BY <1>1, <2>1, EmptyHanded
<1>3. r \in RunType /\ r.at = "mining" /\ r.todo = <<>> /\ KeysOf(r.todo) = {} /\ r.next = "out"
    BY <1>1, KeysOfNone, RunFacts DEF RunType
<1> HIDE DEF r
<1>4. Steady("miner", r)
    BY <1>3 DEF Steady, Setting
<1>5. \A f : Ready(r, f) /\ MinerReady(r, f)
    BY <1>3 DEF Ready, MinerReady, Nears, Setting
<1>6. /\ start' \in [Ini!Program -> RunType] /\ start'["miner"] = r
      /\ \A q \in Ini!Program \ {"miner"} : start'[q] = start[q]
      /\ \A q \in Ini!Program : Steady(q, start'[q])
    BY <1>1, <1>2, <1>3, <1>4 DEF IniInv
<1>7. /\ fresh' \in Nat /\ saved' \in Nat /\ iniMishap' \in BOOLEAN /\ iniMishap' = iniMishap
      /\ WholeText(iniLines') \/ BrokenText(iniLines')
      /\ used' = [trackers |-> used'.trackers, names |-> used'.names]
    BY <1>1 DEF IniInv
<1>8. ASSUME ~iniMishap' PROVE Identity'
  <2>1. Identity /\ iniLines # Ini!Absent /\ WholeText(iniLines)
    <3>1. Identity /\ iniLines # Ini!Absent
        BY <1>1, <1>7, <1>8, OutBefore DEF IniInv
    <3> QED BY <3>1 DEF Identity
  <2>2. Known(iniLines) /\ m.name = iniLines[4].value
        /\ m.tracker = iniLines[5].value /\ iniLines[5].value # 0
      BY <1>1, <2>1 DEF Identity, MinerReady, Nears
  <2>3. InFile(iniLines)'
      BY <1>1, <2>1, <2>2 DEF Identity, InFile, Known
  <2>4. \A q \in Ini!Program : Ready(start'[q], iniLines)
      BY <1>5, <1>6, <2>1 DEF Identity
  <2>5. MinerReady(start'["miner"], iniLines) /\ KeysOf(start'["miner"].todo) = {}
      BY <1>3, <1>5, <1>6
  <2> QED BY <1>1, <2>1, <2>3, <2>4, <2>5 DEF Identity
<1> QED BY <1>6, <1>7, <1>8 DEF IniInv

LEMMA IniLeaves ==
  ASSUME IniInv, NEW p \in Ini!Program, Ini!Leave(p)
  PROVE  IniInv'
<1>1. Ini!Fails(p) /\ UNCHANGED <<fresh, starts, saved, used>>
    BY DEF Ini!Leave
<1>2. CASE UNCHANGED <<iniLines, iniMishap>>
  <2>1. iniMishap' \in BOOLEAN /\ (~iniMishap' => ~iniMishap)
      BY <1>2 DEF IniInv
  <2> QED BY <1>1, <1>2, <2>1, IniFails
<1>3. CASE iniLines' = <<>> /\ iniMishap' = TRUE
  <2>1. BrokenText(iniLines')
      BY <1>3 DEF BrokenText, Text
  <2>2. Steady(p, Ini!Idle) /\ Ini!Idle \in RunType
      BY IdleSteady DEF Steady
  <2>3. /\ start' \in [Ini!Program -> RunType]
        /\ \A q \in Ini!Program : Steady(q, start'[q])
      BY <1>1, <2>2 DEF IniInv, Ini!Fails
  <2> QED BY <1>1, <1>3, <2>1, <2>3 DEF IniInv
<1> QED BY <1>2, <1>3 DEF Ini!Leave

LEMMA IniRefuses ==
  ASSUME IniInv, NEW p \in Ini!Program, Ini!Refuse(p)
  PROVE  IniInv'
<1>1. Ini!Fails(p) /\ UNCHANGED <<iniLines, fresh, saved, used, iniMishap>>
    BY DEF Ini!Refuse
<1>2. iniMishap' \in BOOLEAN /\ (~iniMishap' => ~iniMishap)
    BY <1>1 DEF IniInv
<1> QED BY <1>1, <1>2, IniFails

LEMMA IniInit == Ini!Init => IniInv
<1> SUFFICES ASSUME Ini!Init PROVE IniInv
    OBVIOUS
<1>1. /\ iniLines = Ini!Absent /\ start = [p \in Ini!Program |-> Ini!Idle]
      /\ fresh = 0 /\ saved = 0 /\ iniMishap = FALSE
      /\ used = [trackers |-> {}, names |-> {}]
    BY DEF Ini!Init
<1>2. \A p \in Ini!Program : Steady(p, Ini!Idle) /\ Ini!Idle \in RunType /\ Ini!Idle.at = "out"
    BY IdleSteady DEF Steady
<1>3. BrokenText(iniLines) /\ ~WholeText(iniLines)
    BY <1>1, AbsentIsBroken
<1>4. Untouched
    BY <1>1, <1>2 DEF Untouched, Ini!Program
<1>5. Identity
    BY <1>1, <1>3, <1>4 DEF Identity
<1>6. start \in [Ini!Program -> RunType] /\ \A p \in Ini!Program : Steady(p, start[p])
    BY <1>1, <1>2
<1> QED BY <1>1, <1>3, <1>5, <1>6 DEF IniInv

LEMMA IniStep ==
  ASSUME Template = "example", IniInv, [Ini!Next]_Ini!vars
  PROVE  IniInv'
<1>1. CASE UNCHANGED Ini!vars
    BY <1>1 DEF Ini!vars, IniInv, Identity, Untouched, InFile
<1>2. CASE Ini!Next
  <2>1. PICK p \in Ini!Program :
           \/ Ini!Start(p) \/ Ini!EnsureWorkerId(p) \/ Ini!Read(p) \/ Ini!Write(p)
           \/ Ini!Load(p) \/ Ini!Denied(p) \/ Ini!Mine(p) \/ Ini!Refuse(p) \/ Ini!Leave(p)
           \/ \E asked, typed \in BOOLEAN : Ini!EnsureWallet(p, asked, typed)
      BY <1>2 DEF Ini!Next
  <2>2. CASE Ini!Start(p)
      BY <2>2, IniBegins
  <2>3. CASE Ini!EnsureWorkerId(p)
      BY <2>3, IniNames
  <2>4. CASE Ini!Read(p)
      BY <2>4, IniReads
  <2>5. CASE Ini!Write(p)
      BY <2>5, IniWrites
  <2>6. CASE Ini!Load(p)
      BY <2>6, IniLoads
  <2>7. CASE Ini!Denied(p)
      BY <2>7, IniDenied
  <2>8. CASE Ini!Mine(p)
      BY <2>8, IniMines
  <2>9. CASE Ini!Refuse(p)
      BY <2>9, IniRefuses
  <2>10. CASE Ini!Leave(p)
      BY <2>10, IniLeaves
  <2>11. CASE \E asked, typed \in BOOLEAN : Ini!EnsureWallet(p, asked, typed)
      BY <2>11, IniWallet
  <2> QED BY <2>1, <2>2, <2>3, <2>4, <2>5, <2>6, <2>7, <2>8, <2>9, <2>10, <2>11
<1> QED BY <1>1, <1>2

LEMMA IniAgrees == IniInv => Ini!IdentityKept
<1> SUFFICES ASSUME IniInv PROVE Ini!IdentityKept
    OBVIOUS
<1>1. Ini!NoKeyTwice
  <2>1. CASE WholeText(iniLines)
    <3>1. Ini!Parses
        BY <2>1, WholeLines, WholeApart DEF Ini!Parses, Ini!IsSet
    <3> QED BY <3>1 DEF Ini!NoKeyTwice
  <2>2. CASE BrokenText(iniLines)
    <3>1. ~\E i \in DOMAIN iniLines : iniLines[i].section = "server"
        BY <2>2 DEF BrokenText, Text
    <3> QED BY <3>1 DEF Ini!NoKeyTwice, Ini!Complete
  <2> QED BY <2>1, <2>2 DEF IniInv
<1>2. ASSUME ~iniMishap
      PROVE  /\ saved # 0 => Ini!Value("account", "address") = saved
             /\ \E n, t : used.names \subseteq {n} /\ used.trackers \subseteq {t}
  <2>1. CASE WholeText(iniLines)
      BY <1>2, <2>1, WholeValues DEF IniInv, Identity, InFile
  <2>2. CASE iniLines = Ini!Absent
      BY <1>2, <2>2 DEF IniInv, Identity, Untouched
  <2> QED BY <1>2, <2>1, <2>2 DEF IniInv, Identity
<1>3. ASSUME NEW S, NEW x, S \subseteq {x}
      PROVE  Ini!Cardinality(S) <= 1
  <2>1. IsFiniteSet({x}) /\ Cardinality({x}) = 1
      BY FS_Singleton
  <2>2. IsFiniteSet(S) /\ Cardinality(S) <= Cardinality({x})
      BY <1>3, <2>1, FS_Subset
  <2>3. Ini!Cardinality(S) = Cardinality(S)
      BY DEF Cardinality, Ini!Cardinality
  <2> QED BY <2>1, <2>2, <2>3
<1>4. ~iniMishap => Ini!Cardinality(used.names) <= 1 /\ Ini!Cardinality(used.trackers) <= 1
    BY <1>2, <1>3
<1> QED BY <1>1, <1>2, <1>4 DEF Ini!IdentityKept, Ini!TrackerWrittenOnce

(* wallet_setup.py:83-94, :227-259, settings.py:144-156: with the file     *)
(* that is shipped, starts of the miner and the watchdog in any order, the *)
(* crashes, refusals and writes over one another among them, leave no key  *)
(* twice in a complete file, and unless a write was lost the wallet, the   *)
(* names and the tracker id stay what they were.                           *)
THEOREM IdentityStays ==
  ASSUME Template = "example"
  PROVE  ServicesSpec => []IdentityKept
<1> DEFINE Inv == service = "ini" => IniInv
<1>1. ServicesInit => Inv
    BY IniInit DEF ServicesInit
<1>2. Inv /\ [ServicesNext]_all => Inv'
    BY IniFrame, IniStep, ServiceStays
<1>3. Inv => IdentityKept
    BY IniAgrees DEF IdentityKept
<1> QED BY <1>1, <1>2, <1>3, PTL DEF ServicesSpec

-----------------------------------------------------------------------------
(* VramPlan *)

LEMMA VramFrame ==
  [ServicesNext]_all /\ service = "vram" => service' = "vram" /\ [Vram!Next]_Vram!vars
<1> QED
    BY DEF all, ServicesNext, LockRuns, HeatRuns, CpuRuns, PowerRuns, UptimeRuns, IniRuns,
       ReportRuns, BalancesRuns, UpgradeRuns, VramRuns, SnapsRuns, vram, Vram!vars

(* Products and quotients.                                                 *)
LEMMA QuotientNat ==
  ASSUME NEW n \in Nat, NEW d \in Nat \ {0}
  PROVE  n \div d \in Nat /\ (n \div d) * d <= n
<1> DEFINE q == n \div d
<1>1. q \in Int /\ d * q <= n
    BY Division
<1>2. 0 <= q
  <2>1. 0 * d <= n
      OBVIOUS
  <2> QED BY <2>1, QuotientAtLeast
<1> HIDE DEF q
<1>3. q \in Nat /\ q * d <= n
    BY <1>1, <1>2
<1> QED BY <1>3 DEF q

LEMMA ProductsNat ==
  ASSUME NEW a \in Nat, NEW b \in Nat, NEW c \in Nat, a <= b
  PROVE  a * c \in Nat /\ b * c \in Nat /\ a * c <= b * c
<1>1. c * a <= c * b
    BY Products
<1> QED BY <1>1

LEMMA KibNat ==
  ASSUME NEW n \in Nat, NEW d \in Nat
  PROVE  n * d \in Nat /\ (n * d) \div 1000 \in Nat /\ Vram!BatchKib(n, d) \in Nat
         /\ Vram!BatchKib(n, d) = n * d + (n * d) \div 1000
<1> DEFINE x == n * d
<1>1. x \in Nat
    OBVIOUS
<1> HIDE DEF x
<1>2. x \div 1000 \in Nat
    BY <1>1
<1>3. Vram!BatchKib(n, d) = x + x \div 1000
    BY DEF Vram!BatchKib, x
<1> QED BY <1>1, <1>2, <1>3 DEF x

LEMMA KibGrows ==
  ASSUME NEW m \in Nat, NEW n \in Nat, NEW d \in Nat, m * d <= n
  PROVE  Vram!BatchKib(m, d) <= n + n \div 1000
<1> DEFINE x == m * d
<1>1. x \in Nat /\ x <= n
    OBVIOUS
<1>2. Vram!BatchKib(m, d) = x + x \div 1000
    BY KibNat
<1> HIDE DEF x
<1>3. x \div 1000 <= n \div 1000 /\ x \div 1000 \in Nat /\ n \div 1000 \in Nat
    BY <1>1
<1> QED BY <1>1, <1>2, <1>3

(* The attempts in so much memory take no more than that.                  *)
LEMMA AttemptsFit ==
  ASSUME NEW kib \in Nat, NEW d \in Nat \ {0}
  PROVE  /\ Vram!Attempts(kib, d) \in Nat
         /\ Vram!BatchKib(Vram!Attempts(kib, d), d) <= kib
         /\ kib = 0 => Vram!Attempts(kib, d) = 0
<1> DEFINE a == 1000 * (kib \div 1001) + (1000 * (kib % 1001)) \div 1001
           n == a \div d
<1>1. a \in Nat /\ a + a \div 1000 <= kib /\ a <= kib
    OBVIOUS
<1>2. Vram!Attempts(kib, d) = n
    BY DEF Vram!Attempts
<1> HIDE DEF a
<1>3. n \in Nat /\ n * d <= a
    BY <1>1, QuotientNat
<1>4. a = 0 => n = 0
  <2>1. n < a + 1 \/ n <= a
    <3>1. n * 1 <= n * d
        BY <1>3, Products
    <3> QED BY <1>1, <1>3, <3>1
  <2> QED BY <1>1, <1>3, <2>1
<1> HIDE DEF n
<1>5. Vram!BatchKib(n, d) <= a + a \div 1000
    BY <1>1, <1>3, KibGrows
<1>6. Vram!BatchKib(n, d) \in Nat /\ a \div 1000 \in Nat
    BY <1>1, <1>3, KibNat
<1> QED BY <1>1, <1>2, <1>3, <1>4, <1>5, <1>6

(* A part of so many of them takes its part of it.                         *)
LEMMA PartsFit ==
  ASSUME NEW n \in Nat, NEW c \in Nat \ {0}, NEW d \in Nat
  PROVE  n \div c \in Nat /\ Vram!BatchKib(n \div c, d) * c <= Vram!BatchKib(n, d)
<1> DEFINE m == n \div c
           x == m * d
           y == x \div 1000
<1>1. m \in Nat /\ m * c <= n
    BY QuotientNat
<1> HIDE DEF m
<1>2. x \in Nat /\ x * c <= n * d
  <2>1. (m * c) * d <= n * d
      BY <1>1, ProductsNat
  <2>2. (m * c) * d = (m * d) * c
      BY <1>1
  <2> QED BY <1>1, <2>1, <2>2
<1>3. Vram!BatchKib(m, d) = x + y
    BY <1>1, KibNat
<1> HIDE DEF x
<1>4. y \in Nat /\ y * 1000 <= x
    BY <1>2, QuotientNat
<1> HIDE DEF y
<1> DEFINE z == n * d
<1>5. z \in Nat /\ x * c <= z
    BY <1>2
<1>6. Vram!BatchKib(n, d) = z + z \div 1000
    BY KibNat
<1> HIDE DEF z
<1>7. y * c <= z \div 1000
  <2>1. (y * 1000) * c <= x * c
      BY <1>2, <1>4, ProductsNat
  <2>2. (y * 1000) * c = (y * c) * 1000
      BY <1>4
  <2>3. y * c \in Nat /\ (y * c) * 1000 <= z
      BY <1>2, <1>4, <1>5, <2>1, <2>2
  <2> QED BY <1>5, <2>3, QuotientAtLeast
<1>8. (x + y) * c = x * c + y * c
    BY <1>2, <1>4
<1>9. x * c \in Nat /\ y * c \in Nat /\ z \div 1000 \in Nat
    BY <1>2, <1>4, <1>5
<1>10. (x + y) * c <= z + z \div 1000
    BY <1>5, <1>7, <1>8, <1>9
<1> QED BY <1>1, <1>3, <1>6, <1>10 DEF m

LEMMA LargerSmaller ==
  ASSUME NEW a \in Int, NEW b \in Int
  PROVE  /\ Vram!Larger(a, b) \in {a, b} /\ Vram!Larger(a, b) >= a /\ Vram!Larger(a, b) >= b
         /\ Vram!Smaller(a, b) \in {a, b} /\ Vram!Smaller(a, b) <= a /\ Vram!Smaller(a, b) <= b
         /\ Vram!Monus(a, b) \in Nat /\ Vram!Monus(a, b) = IF b < a THEN a - b ELSE 0
<1> QED BY DEF Vram!Larger, Vram!Smaller, Vram!Monus

LEMMA RoundedInt ==
  ASSUME NEW n \in Int, NEW d \in Nat \ {0}
  PROVE  Vram!RoundHalfEven(n, d) \in Int
<1>1. n \div d \in Int
    BY Division
<1> QED BY <1>1 DEF Vram!RoundHalfEven

LEMMA ShareNat ==
  ASSUME NEW total \in Nat, NEW p \in Nat
  PROVE  (total * p) \div 10000 \in Nat
<1> DEFINE x == total * p
<1>1. x \in Nat
    OBVIOUS
<1> HIDE DEF x
<1>2. x \div 10000 \in Nat
    BY <1>1
<1> QED BY <1>2 DEF x

(* The caps of a card are amounts of memory.                               *)
LEMMA CapsNat ==
  ASSUME NEW total \in Nat
  PROVE  /\ Vram!Caps(total).target \in Nat /\ Vram!Caps(total).headroom \in Nat
         /\ Vram!Caps(total).overhead \in Nat /\ Vram!Caps(total).emergency \in Nat
<1> DEFINE share(p) == (total * p) \div 10000
           headroom == Vram!Larger(HeadroomFloor, Vram!Smaller(share(HeadroomShare), total - 1))
           minHead == Vram!Larger(HeadroomFloor, Vram!Smaller(share(MinHeadroomShare), headroom))
           overhead == Vram!Larger(OverheadFloor, Vram!Smaller(share(OverheadShare), total \div 2))
           target == Vram!Smaller(share(TargetShare), Vram!Monus(total, headroom))
           emergency == Vram!Larger(minHead, Vram!Smaller(share(EmergencyShare),
                                                Vram!Monus(total, EmergencyFloor)))
           over == IF target = 0 THEN overhead
                   ELSE Vram!Smaller(overhead, Vram!Larger(OverheadFloor, target \div 2))
<1>1. Vram!Caps(total) = [target |-> target, headroom |-> headroom, minHead |-> minHead,
                          emergency |-> emergency, overhead |-> over]
    BY DEF Vram!Caps
<1>2. /\ share(HeadroomShare) \in Nat /\ share(MinHeadroomShare) \in Nat
      /\ share(OverheadShare) \in Nat /\ share(TargetShare) \in Nat /\ share(EmergencyShare) \in Nat
      /\ HeadroomFloor \in Nat /\ OverheadFloor \in Nat /\ EmergencyFloor \in Nat
      /\ total - 1 \in Int /\ total \div 2 \in Nat
  <2>1. /\ HeadroomShare \in Nat /\ MinHeadroomShare \in Nat /\ OverheadShare \in Nat
        /\ TargetShare \in Nat /\ EmergencyShare \in Nat
        /\ HeadroomFloor \in Nat /\ OverheadFloor \in Nat /\ EmergencyFloor \in Nat
      BY VramAssumption
  <2>2. total - 1 \in Int /\ total \div 2 \in Nat
      OBVIOUS
  <2> QED BY <2>1, <2>2, ShareNat
<1> HIDE DEF share
<1>3. headroom \in Nat
  <2>1. Vram!Smaller(share(HeadroomShare), total - 1) \in Int
      BY <1>2, LargerSmaller
  <2> QED BY <1>2, <2>1 DEF Vram!Larger
<1>4. overhead \in Nat
  <2>1. Vram!Smaller(share(OverheadShare), total \div 2) \in Nat
      BY <1>2 DEF Vram!Smaller
  <2> QED BY <1>2, <2>1 DEF Vram!Larger
<1> HIDE DEF headroom, overhead
<1>5. minHead \in Nat
  <2>1. Vram!Smaller(share(MinHeadroomShare), headroom) \in Nat
      BY <1>2, <1>3 DEF Vram!Smaller
  <2> QED BY <1>2, <2>1 DEF Vram!Larger
<1>6. target \in Nat
  <2>1. Vram!Monus(total, headroom) \in Nat
      BY <1>3, LargerSmaller
  <2> QED BY <1>2, <2>1 DEF Vram!Smaller
<1> HIDE DEF minHead, target
<1>7. emergency \in Nat
  <2>1. Vram!Monus(total, EmergencyFloor) \in Nat
      BY <1>2 DEF Vram!Monus, Vram!Larger
  <2>2. Vram!Smaller(share(EmergencyShare), Vram!Monus(total, EmergencyFloor)) \in Nat
      BY <1>2, <2>1 DEF Vram!Smaller
  <2> QED BY <1>5, <2>2 DEF Vram!Larger
<1>8. over \in Nat
  <2>1. target \div 2 \in Nat
      BY <1>6
  <2>2. Vram!Larger(OverheadFloor, target \div 2) \in Nat
      BY <1>2, <2>1 DEF Vram!Larger
  <2> QED BY <1>4, <2>2 DEF Vram!Smaller
<1> HIDE DEF emergency, over
<1> QED BY <1>1, <1>3, <1>6, <1>7, <1>8

LEMMA FillWithin ==
  ASSUME NEW d \in Nat
  PROVE  Vram!Fill(d) \in 40..100
<1> DEFINE ref == Vram!Larger(LowDifficulty, Reference)
           high == Vram!Larger(ref + 1, Vram!RoundHalfEven(ref * HighDiffFull, 100))
           line(x0, f0, x1, f1) == f0 + ((d - x0) * (f1 - f0)) \div (x1 - x0)
           fill == IF d <= LowDifficulty THEN FillLow
                   ELSE IF d <= ref THEN line(LowDifficulty, FillLow, ref, FillRef)
                   ELSE IF d <= high THEN line(ref, FillRef, high, FillHigh)
                   ELSE FillHigh
<1>1. Vram!Fill(d) = Vram!Clamp(fill, 40, 100)
    BY DEF Vram!Fill
<1>2. LowDifficulty \in Nat /\ Reference \in Nat /\ HighDiffFull \in Nat
      /\ FillLow \in Nat /\ FillRef \in Nat /\ FillHigh \in Nat
    BY VramAssumption, PowerAssumption, SettingsAssumption
<1>3. ref \in Nat
    BY <1>2 DEF Vram!Larger
<1> HIDE DEF ref
<1>4. high \in Int
  <2>1. ref * HighDiffFull \in Int
      BY <1>2, <1>3
  <2>2. Vram!RoundHalfEven(ref * HighDiffFull, 100) \in Int
      BY <2>1, RoundedInt
  <2> QED BY <1>3, <2>2 DEF Vram!Larger
<1> HIDE DEF high
<1>5. ASSUME NEW x0 \in Int, NEW f0 \in Int, NEW x1 \in Int, NEW f1 \in Int, x0 < x1
      PROVE  line(x0, f0, x1, f1) \in Int
  <2>1. (d - x0) * (f1 - f0) \in Int /\ x1 - x0 \in Nat \ {0}
      BY <1>5
  <2>2. ((d - x0) * (f1 - f0)) \div (x1 - x0) \in Int
      BY <2>1, Division
  <2> QED BY <2>2
<1> HIDE DEF line
<1>6. fill \in Int
  <2>1. CASE d > LowDifficulty /\ d <= ref
    <3>1. line(LowDifficulty, FillLow, ref, FillRef) \in Int
        BY <1>2, <1>3, <1>5, <2>1
    <3> QED BY <1>2, <2>1, <3>1
  <2>2. CASE d > LowDifficulty /\ d > ref /\ d <= high
    <3>1. line(ref, FillRef, high, FillHigh) \in Int
        BY <1>2, <1>3, <1>4, <1>5, <2>2
    <3> QED BY <1>2, <1>3, <2>2, <3>1
  <2>3. CASE d <= LowDifficulty \/ (d > ref /\ d > high)
      BY <1>2, <1>3, <1>4, <2>3
  <2> QED BY <1>2, <1>3, <1>4, <2>1, <2>2, <2>3
<1> HIDE DEF fill
<1> QED BY <1>1, <1>6 DEF Vram!Clamp, Vram!Larger, Vram!Smaller

(* The memory of a budget is below the target, and leaves the headroom.    *)
Holds(total, claimed, kib) ==
  /\ 1024 * (claimed + Vram!Caps(total).overhead + Margin) + kib <= 1024 * Vram!Caps(total).target
  /\ 1024 * (claimed + Vram!Caps(total).overhead + Margin + Vram!Caps(total).headroom) + kib
        <= 1024 * total

LEMMA BudgetHolds ==
  ASSUME NEW total \in Nat, NEW claimed \in Nat, NEW d \in Nat
  PROVE  /\ Vram!Budget(total, claimed, d) \in Nat
         /\ Vram!Budget(total, claimed, d) > 0 =>
                Holds(total, claimed, Vram!Budget(total, claimed, d))
<1> DEFINE caps == Vram!Caps(total)
           target == caps.target
           headroom == caps.headroom
           overhead == caps.overhead
           taken == claimed + overhead + Margin
           room == Vram!Smaller(Vram!Monus(target, taken), Vram!Monus(total, headroom + taken))
           fill == Vram!Fill(d)
           kib == ((room * 1024) \div 100) * fill
<1>1. target \in Nat /\ headroom \in Nat /\ overhead \in Nat /\ Margin \in Nat
    BY CapsNat, VramAssumption
<1>2. Vram!Budget(total, claimed, d) = kib
    BY DEF Vram!Budget
<1>3. fill \in 0..100
    BY FillWithin
<1> HIDE DEF target, headroom, overhead, fill
<1>4. /\ room \in Nat
      /\ room > 0 => room + taken <= target /\ room + headroom + taken <= total
    BY <1>1 DEF Vram!Smaller, Vram!Monus, Vram!Larger
<1> HIDE DEF room
<1> DEFINE part == (room * 1024) \div 100
<1>5. part \in Nat /\ part * 100 <= room * 1024
    BY <1>4
<1> HIDE DEF part
<1>6. part * fill \in Nat /\ part * fill <= part * 100
    BY <1>3, <1>5, Products
<1>7. kib = part * fill
    BY DEF part
<1> HIDE DEF kib
<1>8. kib \in Nat /\ kib <= room * 1024
    BY <1>4, <1>5, <1>6, <1>7
<1>9. kib > 0 => Holds(total, claimed, kib)
  <2>1. kib > 0 => room > 0
      BY <1>4, <1>8
  <2>2. kib > 0 => 1024 * taken + kib <= 1024 * target
                   /\ 1024 * (taken + headroom) + kib <= 1024 * total
      BY <1>1, <1>4, <1>8, <2>1
  <2> QED BY <1>1, <2>2 DEF Holds, target, headroom, overhead
<1> QED BY <1>2, <1>8, <1>9

PlanType ==
  [lanes : Nat \ {0}, conc : Nat \ {0}, batch : Nat, mib : Nat, used : Nat, headroom : Nat,
   total : Nat, foreign : Nat, kib : Nat, diff : Nat \ {0}, overhead : Nat]

(* A plan for the card: all of its buffers are in the memory of its budget. *)
FitPlan(p) ==
  /\ p \in PlanType
  /\ p.conc <= p.lanes /\ p.total = device.total
  /\ p.overhead = Vram!Caps(device.total).overhead + Margin
  /\ Holds(device.total, p.foreign, p.kib)
  /\ Vram!BatchKib(p.batch, p.diff) * p.conc <= p.kib
  /\ p.used <= p.total /\ p.headroom = p.total - p.used

(* What a plan is made from.                                               *)
AlikePlans(p, q) ==
  /\ q.foreign = p.foreign /\ q.kib = p.kib /\ q.diff = p.diff /\ q.overhead = p.overhead

LEMMA KibType == \A n, d \in Nat : Vram!BatchKib(n, d) \in Nat
<1> QED BY KibNat

LEMMA PlanFields ==
  ASSUME NEW p \in PlanType
  PROVE  /\ p.lanes \in Nat \ {0} /\ p.conc \in Nat \ {0} /\ p.batch \in Nat /\ p.mib \in Nat
         /\ p.used \in Nat /\ p.headroom \in Nat /\ p.total \in Nat /\ p.foreign \in Nat
         /\ p.kib \in Nat /\ p.diff \in Nat \ {0} /\ p.overhead \in Nat
<1> QED BY DEF PlanType

MadeOf(p, lanes, conc, batch, q) ==
  /\ q \in PlanType /\ q.lanes = lanes /\ q.conc = conc /\ q.batch = batch
  /\ q.mib = (Vram!BatchKib(batch, p.diff) * conc) \div 1024
  /\ q.used = p.foreign + (Vram!BatchKib(batch, p.diff) * conc) \div 1024 + p.overhead
  /\ q.headroom = IF q.used < p.total THEN p.total - q.used ELSE 0
  /\ q.total = p.total /\ AlikePlans(p, q)

LEMMA MadePlan ==
  \A p \in PlanType, lanes \in Nat \ {0}, conc \in Nat \ {0}, batch \in Nat :
    conc <= lanes => MadeOf(p, lanes, conc, batch, Vram!MakePlan(p, lanes, conc, batch))
<1> SUFFICES ASSUME NEW p \in PlanType, NEW lanes \in Nat \ {0}, NEW conc \in Nat \ {0},
                    NEW batch \in Nat, conc <= lanes
             PROVE  MadeOf(p, lanes, conc, batch, Vram!MakePlan(p, lanes, conc, batch))
    OBVIOUS
<1> DEFINE kib == Vram!BatchKib(batch, p.diff) * conc
           together == Vram!Larger(1, Vram!Smaller(conc, lanes))
           size == (Vram!BatchKib(batch, p.diff) * together) \div 1024
           uses == p.foreign + size + p.overhead
           head == Vram!Monus(p.total, uses)
           made == [p EXCEPT !.lanes = lanes, !.conc = together, !.batch = batch, !.mib = size,
                             !.used = uses, !.headroom = head]
<1>1. Vram!MakePlan(p, lanes, conc, batch) = made
    BY DEF Vram!MakePlan
<1>2. together = conc
    BY DEF Vram!Larger, Vram!Smaller
<1>3. /\ p.diff \in Nat /\ p.foreign \in Nat /\ p.overhead \in Nat
      /\ p.total \in Nat /\ p.kib \in Nat
    BY PlanFields
<1>4. kib \in Nat
  <2>1. Vram!BatchKib(batch, p.diff) \in Nat
      BY <1>3, KibType
  <2> QED BY <2>1
<1> HIDE DEF together
<1>5. size = kib \div 1024
    BY <1>2
<1> HIDE DEF size
<1>6. size \in Nat
  <2> HIDE DEF kib
  <2> QED BY <1>4, <1>5
<1> HIDE DEF kib
<1>7. uses \in Nat /\ uses = p.foreign + size + p.overhead
    BY <1>3, <1>6
<1> HIDE DEF uses
<1>8. head \in Nat
    BY <1>3, <1>7 DEF Vram!Monus, Vram!Larger
<1>9. head = IF uses < p.total THEN p.total - uses ELSE 0
    BY <1>3, <1>7 DEF Vram!Monus, Vram!Larger
<1> HIDE DEF head
<1>10. made \in PlanType
    BY <1>2, <1>6, <1>7, <1>8 DEF PlanType
<1>11. /\ made.lanes = lanes /\ made.conc = conc /\ made.batch = batch
      /\ made.mib = size /\ made.used = uses /\ made.headroom = head
      /\ made.total = p.total /\ made.foreign = p.foreign /\ made.kib = p.kib
      /\ made.diff = p.diff /\ made.overhead = p.overhead
    BY <1>2 DEF PlanType
<1> HIDE DEF made
<1> QED BY <1>1, <1>5, <1>7, <1>9, <1>10, <1>11 DEF MadeOf, AlikePlans, kib

(* A plan within its budget is within the limits, and is left as it is.    *)
LEMMA MadeFits ==
  ASSUME device.total \in Nat, NEW p \in PlanType, NEW lanes \in Nat \ {0},
         NEW conc \in Nat \ {0}, NEW batch \in Nat, conc <= lanes, p.total = device.total,
         p.overhead = Vram!Caps(device.total).overhead + Margin,
         Holds(device.total, p.foreign, p.kib), Vram!BatchKib(batch, p.diff) * conc <= p.kib,
         NEW q, q = Vram!MakePlan(p, lanes, conc, batch)
  PROVE  /\ FitPlan(q) /\ Vram!Clamped(q) = q /\ AlikePlans(p, q)
         /\ q.lanes = lanes /\ q.conc = conc /\ q.batch = batch
<1> DEFINE kib == Vram!BatchKib(batch, p.diff) * conc
           mib == kib \div 1024
           caps == Vram!Caps(device.total)
<1>1. /\ p.diff \in Nat /\ p.foreign \in Nat /\ p.overhead \in Nat
      /\ p.total \in Nat /\ p.kib \in Nat /\ lanes \in Nat \ {0}
    BY PlanFields
<1>2. kib \in Nat /\ kib <= p.kib
  <2>1. Vram!BatchKib(batch, p.diff) \in Nat
      BY <1>1, KibType
  <2> QED BY <2>1
<1>3. /\ q \in PlanType /\ q.lanes = lanes /\ q.conc = conc /\ q.batch = batch
      /\ q.used = p.foreign + mib + p.overhead
      /\ q.headroom = IF q.used < p.total THEN p.total - q.used ELSE 0
      /\ q.total = p.total /\ AlikePlans(p, q)
  <2>1. MadeOf(p, lanes, conc, batch, q)
      BY MadePlan
  <2> QED BY <2>1 DEF MadeOf
<1>4. Vram!BatchKib(q.batch, q.diff) * q.conc = kib
    BY <1>3 DEF AlikePlans
<1> HIDE DEF kib
<1>5. mib \in Nat /\ 1024 * mib <= kib
    BY <1>2
<1> HIDE DEF mib
<1>6. caps.target \in Nat /\ caps.headroom \in Nat /\ caps.overhead \in Nat /\ Margin \in Nat
    BY CapsNat, VramAssumption
<1>7. /\ 1024 * (p.foreign + p.overhead) + p.kib <= 1024 * caps.target
      /\ 1024 * (p.foreign + p.overhead + caps.headroom) + p.kib <= 1024 * p.total
    BY <1>1, <1>6 DEF Holds
<1>8. q.used <= caps.target /\ q.used + caps.headroom <= p.total /\ q.used \in Nat
    BY <1>1, <1>2, <1>3, <1>5, <1>6, <1>7
<1>9. q.used <= p.total /\ q.headroom = p.total - q.used /\ q.headroom >= caps.headroom
    BY <1>1, <1>3, <1>6, <1>8
<1>10. Vram!WithinLimits(q)
    BY <1>8, <1>9 DEF Vram!WithinLimits
<1>11. Vram!Clamped(q) = q
    BY <1>10 DEF Vram!Clamped
<1>12. FitPlan(q)
    BY <1>2, <1>3, <1>4, <1>9 DEF FitPlan, AlikePlans
<1> QED BY <1>3, <1>11, <1>12

LEMMA AttemptsHeld ==
  \A kib, d \in Nat, c \in Nat \ {0} : d # 0 =>
    /\ Vram!Attempts(kib, d) \in Nat /\ kib \div c \in Nat
    /\ Vram!BatchKib(Vram!Attempts(kib \div c, d), d) * c <= kib
    /\ Vram!BatchKib(Vram!Attempts(kib, d) \div c, d) * c <= kib
<1> SUFFICES ASSUME NEW kib \in Nat, NEW d \in Nat, NEW c \in Nat \ {0}, d # 0
             PROVE  /\ Vram!Attempts(kib, d) \in Nat /\ kib \div c \in Nat
                    /\ Vram!BatchKib(Vram!Attempts(kib \div c, d), d) * c <= kib
                    /\ Vram!BatchKib(Vram!Attempts(kib, d) \div c, d) * c <= kib
    OBVIOUS
<1>1. \A k \in Nat : Vram!Attempts(k, d) \in Nat /\ Vram!BatchKib(Vram!Attempts(k, d), d) <= k
    BY AttemptsFit
<1>2. kib \div c \in Nat /\ (kib \div c) * c <= kib
    BY QuotientNat
<1>3. Vram!BatchKib(Vram!Attempts(kib \div c, d), d) * c <= kib
  <2> DEFINE n == Vram!BatchKib(Vram!Attempts(kib \div c, d), d)
             m == kib \div c
  <2>1. n \in Nat /\ n <= m
      BY <1>1, <1>2, KibType
  <2> HIDE DEF n, m
  <2>2. m \in Nat /\ m * c <= kib
      BY <1>2 DEF m
  <2>3. n * c \in Nat /\ m * c \in Nat /\ n * c <= m * c
      BY <2>1, <2>2, ProductsNat
  <2>4. n * c <= kib
      BY <2>2, <2>3
  <2> QED BY <2>4 DEF n
<1>4. Vram!BatchKib(Vram!Attempts(kib, d) \div c, d) * c <= kib
  <2> DEFINE a == Vram!Attempts(kib, d)
             n == Vram!BatchKib(a \div c, d)
             m == Vram!BatchKib(a, d)
  <2>1. a \in Nat /\ m <= kib
      BY <1>1
  <2> HIDE DEF a
  <2>2. a \div c \in Nat /\ n * c <= m
      BY <2>1, PartsFit
  <2>3. n \in Nat /\ m \in Nat
      BY <2>1, <2>2, KibType
  <2> HIDE DEF n, m
  <2>4. n * c <= kib
      BY <2>1, <2>2, <2>3
  <2> QED BY <2>4 DEF n, a
<1> QED BY <1>1, <1>2, <1>3, <1>4

(* Fewer lanes need no more memory.                                        *)
LEMMA LaneCapFits ==
  ASSUME device.total \in Nat, NEW p, FitPlan(p), NEW cap \in Int
  PROVE  /\ FitPlan(Vram!ApplyLaneCap(p, cap)) /\ AlikePlans(p, Vram!ApplyLaneCap(p, cap))
         /\ Vram!ApplyLaneCap(p, cap).lanes <= p.lanes
<1> DEFINE lanes == Vram!Larger(1, cap)
           conc == Vram!Smaller(p.conc, lanes)
           batch == IF conc = 1 THEN p.batch ELSE Vram!Attempts(p.kib \div conc, p.diff)
           same == [p EXCEPT !.total = p.used + p.headroom]
           q == Vram!MakePlan(same, lanes, conc, batch)
<1>1. Vram!ApplyLaneCap(p, cap) = IF p.lanes <= lanes THEN p ELSE Vram!Clamped(q)
    BY DEF Vram!ApplyLaneCap
<1>2. p \in PlanType
    BY DEF FitPlan
<1>3. /\ p.lanes \in Nat \ {0} /\ p.conc \in Nat \ {0} /\ p.batch \in Nat
      /\ p.used \in Nat /\ p.headroom \in Nat /\ p.total \in Nat
      /\ p.kib \in Nat /\ p.diff \in Nat /\ p.diff # 0
    BY <1>2, PlanFields
<1>4. p.used + p.headroom = p.total
    BY <1>3 DEF FitPlan
<1>5. same = p
    BY <1>2, <1>4 DEF PlanType
<1>6. lanes \in Nat \ {0}
    BY DEF Vram!Larger
<1> HIDE DEF lanes
<1>7. conc \in Nat \ {0} /\ conc <= lanes /\ conc <= p.conc
    BY <1>3, <1>6 DEF Vram!Smaller
<1> HIDE DEF conc
<1>8. batch \in Nat /\ Vram!BatchKib(batch, p.diff) * conc <= p.kib
  <2>1. CASE conc = 1
    <3> DEFINE n == Vram!BatchKib(p.batch, p.diff)
    <3>1. n \in Nat
        BY <1>3, KibType
    <3>2. n * p.conc <= p.kib
        BY DEF FitPlan
    <3> HIDE DEF n
    <3>3. n * 1 <= n * p.conc
        BY <1>3, <3>1, Products
    <3>4. n * conc <= p.kib
        BY <1>3, <2>1, <3>1, <3>2, <3>3
    <3> QED BY <1>3, <2>1, <3>4 DEF n
  <2>2. CASE conc # 1
    <3>1. p.kib \div conc \in Nat
          /\ Vram!BatchKib(Vram!Attempts(p.kib \div conc, p.diff), p.diff) * conc <= p.kib
        BY <1>3, <1>7, AttemptsHeld
    <3>2. Vram!Attempts(p.kib \div conc, p.diff) \in Nat
      <4>1. \A k, d \in Nat : d # 0 => Vram!Attempts(k, d) \in Nat
          BY AttemptsHeld
      <4> QED BY <1>3, <3>1, <4>1
    <3> QED BY <2>2, <3>1, <3>2
  <2> QED BY <2>1, <2>2
<1> HIDE DEF batch
<1>9. q = Vram!MakePlan(p, lanes, conc, batch)
    BY <1>5
<1> HIDE DEF same, q
<1>10. /\ p.total = device.total /\ p.overhead = Vram!Caps(device.total).overhead + Margin
       /\ Holds(device.total, p.foreign, p.kib)
    BY DEF FitPlan
<1>11. FitPlan(q) /\ Vram!Clamped(q) = q /\ AlikePlans(p, q) /\ q.lanes = lanes
    BY <1>2, <1>6, <1>7, <1>8, <1>9, <1>10, MadeFits
<1>12. CASE p.lanes <= lanes
  <2>1. AlikePlans(p, p) /\ p.lanes <= p.lanes
      BY <1>3 DEF AlikePlans
  <2> QED BY <1>1, <1>12, <2>1
<1>13. CASE ~(p.lanes <= lanes)
    BY <1>1, <1>3, <1>6, <1>11, <1>13
<1> QED BY <1>12, <1>13

LEMMA EasedInt ==
  ASSUME NEW hi \in Int, NEW lo \in Int, NEW x \in Int, NEW x0 \in Int, NEW x1 \in Int
  PROVE  Vram!Eased(hi, lo, x, x0, x1) \in Int
<1> DEFINE n == hi * (x1 - x0) - (x - x0) * (hi - lo)
           r == Vram!RoundHalfEven(n, x1 - x0)
<1>1. Vram!Eased(hi, lo, x, x0, x1) =
        IF x <= x0 THEN hi ELSE IF x >= x1 THEN lo ELSE Vram!Clamp(r, lo, hi)
    BY DEF Vram!Eased
<1>2. CASE x <= x0 \/ x >= x1
    BY <1>1, <1>2
<1>3. CASE x > x0 /\ x < x1
  <2>1. n \in Int /\ x1 - x0 \in Nat \ {0}
      BY <1>3
  <2> HIDE DEF n
  <2>2. r \in Int
      BY <2>1, RoundedInt
  <2> HIDE DEF r
  <2>3. Vram!Clamp(r, lo, hi) \in Int
      BY <2>2 DEF Vram!Clamp, Vram!Larger, Vram!Smaller
  <2> QED BY <1>1, <1>3, <2>3
<1> QED BY <1>2, <1>3

LEMMA BiasedInt ==
  ASSUME NEW p, FitPlan(p)
  PROVE  Vram!BiasedLanes(p) \in Int
<1> DEFINE packAt == Vram!Larger(1, (Reference * FullPackRatio) \div 100)
<1>1. p.lanes \in Nat /\ p.diff \in Nat
    BY PlanFields DEF FitPlan
<1>2. Reference \in Nat /\ FullPackRatio \in Nat
    BY SettingsAssumption
<1>3. packAt \in Int
  <2> DEFINE n == Reference * FullPackRatio
  <2>1. n \in Nat
      BY <1>2
  <2> HIDE DEF n
  <2>2. n \div 100 \in Nat
      BY <2>1
  <2> QED BY <2>2 DEF n, Vram!Larger
<1>4. Vram!DifficultyLaneBias(p.lanes, p.diff)
        = IF p.diff >= Reference THEN 1 ELSE Vram!Eased(p.lanes, 1, p.diff, packAt, Reference)
    BY DEF Vram!DifficultyLaneBias
<1> HIDE DEF packAt
<1>5. Vram!Eased(p.lanes, 1, p.diff, packAt, Reference) \in Int
  <2>1. \A hi, lo, x, x0, x1 \in Int : Vram!Eased(hi, lo, x, x0, x1) \in Int
      BY EasedInt
  <2>2. p.lanes \in Int /\ p.diff \in Int /\ Reference \in Int /\ 1 \in Int
      BY <1>1, <1>2
  <2> QED BY <1>3, <2>1, <2>2
<1> QED BY <1>1, <1>4, <1>5 DEF Vram!BiasedLanes

LEMMA LeastOfTwo ==
  ASSUME NEW a \in Int, NEW b \in Int, NEW S \in SUBSET {a, b}, S # {}
  PROVE  Vram!Min(S) \in Int
<1>1. \E x \in S : \A y \in S : x <= y
  <2>1. CASE S = {a}
      BY <2>1
  <2>2. CASE S = {b}
      BY <2>2
  <2>3. CASE S = {a, b}
    <3>1. CASE a <= b
        BY <2>3, <3>1
    <3>2. CASE b <= a
        BY <2>3, <3>2
    <3> QED BY <3>1, <3>2
  <2> QED BY <2>1, <2>2, <2>3
<1>2. Vram!Min(S) = CHOOSE x \in S : \A y \in S : x <= y
    BY DEF Vram!Min
<1>3. Vram!Min(S) \in S
    BY <1>1, <1>2
<1> QED BY <1>3

(* cuda_native.py: _effective_plan().                                      *)
LEMMA EffectiveFits ==
  ASSUME device.total \in Nat, NEW m, m.thermal \in Int, m.vram \in Int, NEW p, FitPlan(p)
  PROVE  /\ FitPlan(Vram!Effective(m, p)) /\ AlikePlans(p, Vram!Effective(m, p))
         /\ Vram!Effective(m, p).lanes <= p.lanes
<1> DEFINE biased == Vram!ApplyLaneCap(p, Vram!BiasedLanes(p))
           caps == {c \in {m.thermal, m.vram} : c # Vram!None /\ c < biased.lanes}
           capped == Vram!ApplyLaneCap(biased, Vram!Min(caps))
<1>1. Vram!Effective(m, p) = IF caps = {} THEN biased ELSE capped
    BY DEF Vram!Effective
<1>2. FitPlan(biased) /\ AlikePlans(p, biased) /\ biased.lanes <= p.lanes
    BY BiasedInt, LaneCapFits
<1> HIDE DEF biased
<1>3. caps \in SUBSET {m.thermal, m.vram}
    OBVIOUS
<1> HIDE DEF caps
<1>4. ASSUME caps # {}
      PROVE  FitPlan(capped) /\ AlikePlans(biased, capped) /\ capped.lanes <= biased.lanes
  <2>1. Vram!Min(caps) \in Int
      BY <1>3, <1>4, LeastOfTwo
  <2> QED BY <1>2, <2>1, LaneCapFits
<1> HIDE DEF capped
<1>5. /\ p.lanes \in Nat /\ biased.lanes \in Nat
      /\ caps # {} => capped.lanes \in Nat
    BY <1>2, <1>4, PlanFields DEF FitPlan
<1>6. CASE caps = {}
    BY <1>1, <1>2, <1>6
<1>7. CASE caps # {}
  <2>1. AlikePlans(p, capped)
      BY <1>2, <1>4, <1>7 DEF AlikePlans
  <2>2. capped.lanes <= p.lanes
      BY <1>2, <1>4, <1>5, <1>7
  <2> QED BY <1>1, <1>4, <1>7, <2>1, <2>2
<1> QED BY <1>6, <1>7

LEMMA QuotientInt ==
  ASSUME NEW n \in Nat, NEW d \in Nat \ {0}
  PROVE  n \div d \in Int
<1> QED BY QuotientNat

LEMMA LanesPositive ==
  ASSUME NEW d \in Nat \ {0}, NEW cap \in Int, NEW kib \in Nat
  PROVE  /\ Vram!LaneCount(d, cap, kib) \in Nat \ {0} /\ Vram!PrefixCount(d, cap, kib) \in Nat \ {0}
         /\ kib = 0 => Vram!LaneCount(d, cap, kib) = 1
         /\ cap >= 1 => Vram!LaneCount(d, cap, kib) <= cap /\ Vram!PrefixCount(d, cap, kib) <= cap
<1>1. Reference \in Nat /\ MinBatch \in Nat \ {0}
    BY SettingsAssumption, VramAssumption
<1>2. Vram!Attempts(kib, d) \in Nat /\ (kib = 0 => Vram!Attempts(kib, d) = 0)
    BY AttemptsFit
<1>3. /\ Vram!LaneCount(d, cap, kib) \in Nat \ {0}
      /\ kib = 0 => Vram!LaneCount(d, cap, kib) = 1
      /\ cap >= 1 => Vram!LaneCount(d, cap, kib) <= cap
  <2> DEFINE attempts == Vram!Attempts(kib, d)
             packed == Vram!Larger(Vram!Larger(1, Reference \div d), attempts \div MinBatch)
  <2>1. Vram!LaneCount(d, cap, kib) = IF cap <= 1 \/ d >= Reference \/ attempts = 0 THEN 1
                                      ELSE Vram!Smaller(Vram!Smaller(cap, 32), packed)
      BY DEF Vram!LaneCount
  <2>2. Reference \div d \in Int /\ attempts \div MinBatch \in Int
      BY <1>1, <1>2, QuotientInt
  <2>3. packed \in Nat \ {0}
      BY <2>2 DEF Vram!Larger
  <2> HIDE DEF packed, attempts
  <2>4. cap > 1 => Vram!Smaller(Vram!Smaller(cap, 32), packed) \in 1..cap
      BY <2>3 DEF Vram!Smaller
  <2>5. /\ Vram!LaneCount(d, cap, kib) \in Nat \ {0}
        /\ cap >= 1 => Vram!LaneCount(d, cap, kib) <= cap
      BY <2>1, <2>4
  <2>6. kib = 0 => attempts = 0
      BY <1>2 DEF attempts
  <2> QED BY <2>1, <2>5, <2>6
<1>4. /\ Vram!PrefixCount(d, cap, kib) \in Nat \ {0}
      /\ cap >= 1 => Vram!PrefixCount(d, cap, kib) <= cap
  <2> DEFINE top == Vram!Smaller(cap, 32)
             S == {1} \cup {n \in 1..top : n * MinBatch <= 1024 * Vram!Smaller(kib, 65536)}
  <2>1. Vram!PrefixCount(d, cap, kib) = IF d >= Reference \/ d > 150 THEN 1 ELSE Vram!Max(S)
      BY DEF Vram!PrefixCount
  <2>2. top \in Int /\ top <= 32 /\ top <= cap
      BY DEF Vram!Smaller
  <2> HIDE DEF top
  <2>3. /\ S \in SUBSET (Nat \ {0}) /\ S # {} /\ \A n \in S : n <= 32
        /\ cap >= 1 => \A n \in S : n <= cap
      BY <2>2
  <2> HIDE DEF S
  <2>4. \E x \in S : \A y \in S : y <= x
    <3>1. S \in SUBSET Int /\ 32 \in Int
        BY <2>3
    <3> QED BY <2>3, <3>1, LatestDay
  <2>5. \E x \in S : \A y \in S : x >= y
      BY <2>3, <2>4
  <2>6. Vram!Max(S) \in S
      BY <2>5 DEF Vram!Max
  <2>7. Vram!Max(S) \in Nat \ {0} /\ (cap >= 1 => Vram!Max(S) <= cap)
      BY <2>3, <2>6
  <2> QED BY <2>1, <2>7
<1> QED BY <1>3, <1>4

LEMMA MaxOfOne ==
  ASSUME NEW l \in Int, NEW S \in SUBSET {l}, S # {}
  PROVE  Vram!Max(S) = l
<1>1. S = {l}
    OBVIOUS
<1>2. \E x \in S : \A y \in S : x >= y
    BY <1>1
<1>3. Vram!Max(S) \in S
    BY <1>2 DEF Vram!Max
<1> QED BY <1>1, <1>3

(* Without memory for a buffer there is no batch.                          *)
LEMMA NothingClamped ==
  ASSUME NEW p \in PlanType, p.conc = 1, p.batch = 0
  PROVE  Vram!Clamped(p).batch = 0
<1> DEFINE fewer == IF p.conc = 1 THEN {p.lanes} ELSE 1..p.lanes
           whole == [p EXCEPT !.total = p.used + p.headroom]
           largest(l) == IF l = p.lanes THEN p.batch
                         ELSE Vram!Attempts(p.kib \div Vram!Smaller(p.conc, l), p.diff)
           tried(l) == {Vram!MakePlan(whole, l, Vram!Smaller(p.conc, l), b) :
                          b \in Vram!Trims(largest(l))}
           fits(l) == {q \in tried(l) : Vram!WithinLimits(q)}
           lanes == {l \in fewer : fits(l) # {}}
           best == CHOOSE q \in fits(Vram!Max(lanes)) :
                      \A r \in fits(Vram!Max(lanes)) : r.batch <= q.batch
<1>1. Vram!Clamped(p) = IF Vram!WithinLimits(p) \/ lanes = {} THEN p ELSE best
    BY DEF Vram!Clamped
<1>2. p.lanes \in Nat \ {0}
    BY PlanFields
<1>3. whole \in PlanType
  <2>1. p.used + p.headroom \in Nat
      BY PlanFields
  <2> QED BY <2>1 DEF PlanType
<1> HIDE DEF whole
<1>4. \A q \in fits(p.lanes) : q.batch = 0
  <2>1. Vram!Trims(largest(p.lanes)) = {0}
      BY DEF Vram!Trims
  <2>2. Vram!Smaller(p.conc, p.lanes) = 1
      BY <1>2 DEF Vram!Smaller
  <2>3. tried(p.lanes) = {Vram!MakePlan(whole, p.lanes, 1, 0)}
      BY <2>1, <2>2
  <2>4. MadeOf(whole, p.lanes, 1, 0, Vram!MakePlan(whole, p.lanes, 1, 0))
    <3>1. 1 \in Nat \ {0} /\ 0 \in Nat /\ 1 <= p.lanes
        BY <1>2
    <3> QED BY <1>2, <1>3, <3>1, MadePlan
  <2>5. Vram!MakePlan(whole, p.lanes, 1, 0).batch = 0
      BY <2>4 DEF MadeOf
  <2> QED BY <2>3, <2>5
<1>5. lanes \in SUBSET {p.lanes}
    OBVIOUS
<1>6. lanes # {} => fits(p.lanes) # {}
    OBVIOUS
<1> HIDE DEF fits
<1> HIDE DEF lanes
<1>7. ASSUME lanes # {}
      PROVE  best.batch = 0
  <2>1. Vram!Max(lanes) = p.lanes
      BY <1>2, <1>5, <1>7, MaxOfOne
  <2>2. \E q \in fits(p.lanes) : \A r \in fits(p.lanes) : r.batch <= q.batch
    <3>1. PICK q \in fits(p.lanes) : TRUE
        BY <1>6, <1>7
    <3>2. \A r \in fits(p.lanes) : r.batch <= q.batch
        BY <1>4, <3>1
    <3> QED BY <3>2
  <2>3. best \in fits(p.lanes)
      BY <2>1, <2>2
  <2> QED BY <1>4, <2>3
<1> HIDE DEF best
<1> QED BY <1>1, <1>7

(* vram_batch.py: plan_cuda_batch().                                       *)
LEMMA PlannedFits ==
  ASSUME device.total \in Nat, NEW claimed \in Nat, NEW d \in Nat \ {0}, NEW cap \in Int,
         NEW atOnce \in BOOLEAN, NEW q,
         q = Vram!PlanBatch(device.total, claimed, d, cap, atOnce), q.batch > 0
  PROVE  FitPlan(q) /\ q.foreign = claimed /\ q.diff = d /\ (cap >= 1 => q.lanes <= cap)
<1> DEFINE total == device.total
           kib == Vram!Budget(total, claimed, d)
           lanes == IF atOnce THEN Vram!LaneCount(d, cap, kib)
                    ELSE Vram!PrefixCount(d, cap, kib)
           conc == IF atOnce THEN lanes ELSE 1
           over == Vram!Caps(total).overhead + Margin
           blank == [lanes |-> 1, conc |-> 1, batch |-> 0, mib |-> 0, used |-> 0, headroom |-> 0,
                     total |-> total, foreign |-> claimed, kib |-> kib, diff |-> d,
                     overhead |-> over]
           batch == Vram!Attempts(kib, d) \div conc
           made == Vram!MakePlan(blank, lanes, conc, batch)
<1>1. q = Vram!Clamped(made)
    BY DEF Vram!PlanBatch
<1>2. kib \in Nat /\ (kib > 0 => Holds(total, claimed, kib))
    BY BudgetHolds
<1>3. over \in Nat
    BY CapsNat, VramAssumption
<1> HIDE DEF over
<1>4. blank \in PlanType /\ blank.total = total /\ blank.foreign = claimed /\ blank.kib = kib
      /\ blank.diff = d /\ blank.overhead = over
  <2> HIDE DEF kib, total
  <2> QED BY <1>2, <1>3 DEF PlanType, total
<1> HIDE DEF kib, blank
<1>5. /\ lanes \in Nat \ {0} /\ (cap >= 1 => lanes <= cap)
      /\ kib = 0 /\ atOnce => lanes = 1
    BY <1>2, LanesPositive
<1> HIDE DEF lanes
<1>6. conc \in Nat \ {0} /\ conc <= lanes /\ (kib = 0 => conc = 1)
    BY <1>5
<1> HIDE DEF conc
<1>7. /\ Vram!Attempts(kib, d) \in Nat /\ (kib = 0 => Vram!Attempts(kib, d) = 0)
    BY <1>2, AttemptsFit
<1>8. batch \in Nat /\ (kib = 0 => batch = 0)
  <2> DEFINE a == Vram!Attempts(kib, d)
  <2>1. a \in Nat /\ (kib = 0 => a = 0)
      BY <1>7
  <2> HIDE DEF a
  <2>2. a \div conc \in Nat
      BY <1>6, <2>1, QuotientNat
  <2>3. kib = 0 => a \div conc = 0
      BY <1>6, <2>1
  <2> QED BY <2>2, <2>3 DEF a
<1>9. Vram!BatchKib(batch, d) * conc <= kib
    BY <1>2, <1>6, AttemptsHeld
<1> HIDE DEF batch
<1>10. kib > 0
  <2>1. ASSUME kib = 0 PROVE FALSE
    <3>1. MadeOf(blank, lanes, conc, batch, made)
        BY <1>4, <1>5, <1>6, <1>8, MadePlan
    <3>2. made \in PlanType /\ made.conc = 1 /\ made.batch = 0
        BY <1>6, <1>8, <2>1, <3>1 DEF MadeOf
    <3>3. q.batch = 0
        BY <1>1, <3>2, NothingClamped
    <3> QED BY <3>3
  <2> QED BY <1>2, <2>1
<1>11. FitPlan(made) /\ Vram!Clamped(made) = made /\ AlikePlans(blank, made) /\ made.lanes = lanes
  <2>1. /\ blank.total = device.total
        /\ blank.overhead = Vram!Caps(device.total).overhead + Margin
        /\ Holds(device.total, blank.foreign, blank.kib)
        /\ Vram!BatchKib(batch, blank.diff) * conc <= blank.kib
      BY <1>2, <1>4, <1>9, <1>10 DEF over
  <2> HIDE DEF total
  <2>2. \A r : r = Vram!MakePlan(blank, lanes, conc, batch) =>
                 FitPlan(r) /\ Vram!Clamped(r) = r /\ AlikePlans(blank, r) /\ r.lanes = lanes
      BY <1>4, <1>5, <1>6, <1>8, <2>1, MadeFits
  <2> QED BY <2>2
<1> QED BY <1>1, <1>4, <1>5, <1>11 DEF AlikePlans

BackendType ==
  [on : BOOLEAN, diff : Nat \ {0}, cap : Int, baseline : Nat,
   base : PlanType \cup {Vram!NoPlan}, plan : PlanType \cup {Vram!NoPlan},
   thermal : Int, vram : Int, heat : Int, pressure : Int,
   mode : {"sequential", "native", "dll-copies"}]

BufferType == [count : Int, kib : Int]

ToldType == [other : Nat, start : Nat, sound : BOOLEAN, changes : Int]

(* The plan in use, which the other programs' memory fits beside.          *)
InUse(m, t) ==
  /\ FitPlan(m.base) /\ FitPlan(m.plan) /\ AlikePlans(m.base, m.plan)
  /\ m.baseline = t.start + Context
  /\ t.sound => t.other + Context <= m.plan.foreign + m.plan.overhead

VramInv ==
  /\ device.total \in Nat /\ other \in Nat /\ buffer \in BufferType
  /\ backend \in BackendType /\ told \in ToldType
  /\ IF backend.on THEN InUse(backend, told)
     ELSE backend.base = Vram!NoPlan /\ backend.plan = Vram!NoPlan

LEMMA BackendFields ==
  ASSUME NEW m \in BackendType
  PROVE  /\ m.on \in BOOLEAN /\ m.diff \in Nat \ {0} /\ m.cap \in Int /\ m.baseline \in Nat
         /\ m.thermal \in Int /\ m.vram \in Int /\ m.heat \in Int /\ m.pressure \in Int
         /\ m.plan \in PlanType \cup {Vram!NoPlan} /\ m.base \in PlanType \cup {Vram!NoPlan}
         /\ m.mode \in {"sequential", "native", "dll-copies"}
<1> QED BY DEF BackendType

LEMMA NotNoPlan == ASSUME NEW p \in PlanType PROVE p # Vram!NoPlan
<1>1. p.lanes # 0
    BY PlanFields
<1>2. Vram!NoPlan.lanes = 0
    BY DEF Vram!NoPlan, Vram!None
<1> QED BY <1>1, <1>2

LEMMA ModeType ==
  ASSUME NEW l, NEW loads
  PROVE  Vram!Mode(l, loads) \in {"sequential", "native", "dll-copies"}
<1> QED BY DEF Vram!Mode

LEMMA TogetherInt ==
  ASSUME NEW m \in BackendType, m.plan \in PlanType
  PROVE  Vram!Together(m) \in Nat \ {0}
<1>1. m.plan.lanes \in Nat \ {0}
    BY PlanFields
<1> QED BY <1>1 DEF Vram!Together

LEMMA ShedType ==
  ASSUME NEW m \in BackendType, m.plan \in PlanType, NEW b \in BufferType, NEW c,
         c = [b EXCEPT !.count = Vram!Smaller(@, IF device.engine = "native" THEN m.plan.lanes
                                                ELSE Vram!Together(m))]
  PROVE  c \in BufferType
<1> DEFINE n == IF device.engine = "native" THEN m.plan.lanes ELSE Vram!Together(m)
<1>1. n \in Int
    BY TogetherInt, PlanFields
<1> HIDE DEF n
<1>2. b.count \in Int
    BY DEF BufferType
<1>3. Vram!Smaller(b.count, n) \in Int
    BY <1>1, <1>2 DEF Vram!Smaller
<1>4. c = [b EXCEPT !.count = Vram!Smaller(b.count, n)]
    BY DEF n
<1> QED BY <1>3, <1>4 DEF BufferType

(* A plan is put in use by _apply_plan() and _reapply_live_caps().         *)
LEMMA PutInUse ==
  ASSUME VramInv, device' = device, other' = other, NEW m \in BackendType, m.on,
         NEW base, FitPlan(base), NEW mode \in {"sequential", "native", "dll-copies"},
         NEW eased, eased = Vram!Effective(m, base),
         backend' = [m EXCEPT !.base = base, !.plan = eased, !.mode = mode],
         buffer' = [buffer EXCEPT !.count =
                      Vram!Smaller(@, IF device.engine = "native" THEN eased.lanes
                                      ELSE Vram!Together(backend'))],
         told' \in ToldType, m.baseline = told'.start + Context,
         told'.sound => told'.other + Context <= base.foreign + base.overhead
  PROVE  VramInv'
<1>1. device.total \in Nat /\ other \in Nat /\ buffer \in BufferType
    BY DEF VramInv
<1>2. FitPlan(eased) /\ AlikePlans(base, eased)
    BY <1>1, BackendFields, EffectiveFits
<1>3. base \in PlanType /\ eased \in PlanType
    BY <1>2 DEF FitPlan
<1>4. backend' \in BackendType
    BY <1>3 DEF BackendType
<1>5. /\ backend'.base = base /\ backend'.plan = eased /\ backend'.on
      /\ backend'.baseline = m.baseline
    BY DEF BackendType
<1>6. buffer' \in BufferType
    BY <1>1, <1>3, <1>4, <1>5, ShedType
<1>7. InUse(backend', told')
    BY <1>2, <1>5 DEF InUse, AlikePlans
<1>8. InUse(backend, told)'
    BY <1>7 DEF InUse, FitPlan
<1> QED BY <1>1, <1>4, <1>5, <1>6, <1>8 DEF VramInv

LEMMA UsedInt ==
  ASSUME VramInv
  PROVE  /\ (buffer.kib * buffer.count) \div 1024 \in Int
         /\ Vram!UsedMib = other + (IF backend.on
                                    THEN Context + (buffer.kib * buffer.count) \div 1024 ELSE 0)
         /\ Vram!UsedMib \in Int
<1> DEFINE n == buffer.kib * buffer.count
           mib == n \div 1024
<1>1. n \in Int
    BY DEF VramInv, BufferType
<1> HIDE DEF n
<1>2. mib \in Int
    BY <1>1, Division
<1> HIDE DEF mib
<1>3. Vram!UsedMib = other + (IF backend.on THEN Context + mib ELSE 0)
    BY DEF Vram!UsedMib, mib, n
<1>4. Context \in Int /\ other \in Int
    BY VramAssumption DEF VramInv
<1>5. Vram!UsedMib \in Int
    BY <1>2, <1>3, <1>4
<1> QED BY <1>2, <1>3, <1>5 DEF mib, n

LEMMA ClaimedNat ==
  ASSUME NEW m \in BackendType, NEW taken \in Int
  PROVE  /\ Vram!Foreign(m, taken) \in Nat /\ Vram!Foreign(m, taken) >= m.baseline
         /\ m.plan = Vram!NoPlan => Vram!Foreign(m, taken) >= taken
         /\ m.plan # Vram!NoPlan =>
                Vram!Foreign(m, taken) + m.plan.overhead >= taken - m.plan.mib
<1>1. m.baseline \in Nat
    BY BackendFields
<1>2. CASE m.plan = Vram!NoPlan
    BY <1>1, <1>2 DEF Vram!Foreign, Vram!Larger
<1>3. CASE m.plan # Vram!NoPlan
  <2>1. m.plan.mib \in Nat /\ m.plan.overhead \in Nat
      BY <1>3, BackendFields, PlanFields
  <2> DEFINE x == Vram!Monus(taken, m.plan.mib + m.plan.overhead)
  <2>2. x \in Nat /\ x >= taken - (m.plan.mib + m.plan.overhead)
      BY <2>1 DEF Vram!Monus, Vram!Larger
  <2>3. Vram!Foreign(m, taken) = Vram!Larger(m.baseline, x)
      BY <1>3 DEF Vram!Foreign
  <2> HIDE DEF x
  <2>4. /\ Vram!Foreign(m, taken) \in Nat /\ Vram!Foreign(m, taken) >= m.baseline
        /\ Vram!Foreign(m, taken) >= x
      BY <1>1, <2>2, <2>3 DEF Vram!Larger
  <2> QED BY <1>3, <2>1, <2>2, <2>4
<1> QED BY <1>2, <1>3

LEMMA SizedFits ==
  ASSUME device.total \in Nat, NEW m \in BackendType, NEW taken \in Int,
         NEW q, q = Vram!PlanFromDevice(m, taken), Vram!Sized(q)
  PROVE  FitPlan(q) /\ q.foreign = Vram!Foreign(m, taken) /\ (m.cap >= 1 => q.lanes <= m.cap)
<1> DEFINE together == device.engine = "native" \/ m.mode # "sequential"
<1>1. q = Vram!PlanBatch(device.total, Vram!Foreign(m, taken), m.diff, m.cap, together)
    BY DEF Vram!PlanFromDevice
<1>2. Vram!Foreign(m, taken) \in Nat
    BY ClaimedNat
<1>3. m.diff \in Nat \ {0} /\ m.cap \in Int /\ together \in BOOLEAN
    BY BackendFields
<1>4. q.batch > 0
    BY DEF Vram!Sized
<1> HIDE DEF together
<1> QED BY <1>1, <1>2, <1>3, <1>4, PlannedFits

LEMMA PressureInt ==
  ASSUME device.total \in Nat, NEW floor \in Int, NEW taken \in Int
  PROVE  Vram!Pressure(floor, taken) \in Int
<1> DEFINE target == Vram!TheCaps.target
           emergency == Vram!Larger(target + 1, Vram!TheCaps.emergency)
           n == (taken - target) * (100 - floor)
<1>1. target \in Nat /\ Vram!TheCaps.emergency \in Nat
    BY CapsNat DEF Vram!TheCaps
<1>2. Vram!Pressure(floor, taken) = IF taken <= target THEN 100
                                    ELSE IF taken >= emergency THEN floor
                                    ELSE 100 - n \div (emergency - target)
    BY DEF Vram!Pressure
<1> HIDE DEF target
<1>3. emergency - target \in Nat \ {0}
    BY <1>1 DEF Vram!Larger
<1> HIDE DEF emergency
<1>4. n \in Int
    BY <1>1
<1> HIDE DEF n
<1>5. n \div (emergency - target) \in Int
    BY <1>3, <1>4, Division
<1> QED BY <1>2, <1>5

LEMMA PressureCapInt ==
  ASSUME device.total \in Nat, NEW lanes \in Int, NEW taken \in Int
  PROVE  Vram!PressureCap(lanes, taken) \in Int
<1> DEFINE floor == Vram!Smaller(ThermalLaneMin, lanes)
           n == (100 - Vram!Pressure(50, taken)) * (lanes - floor)
<1>1. floor \in Int
    BY SettingsAssumption DEF Vram!Smaller
<1>2. Vram!PressureCap(lanes, taken) = lanes - Vram!RoundHalfEven(n, 50)
    BY DEF Vram!PressureCap
<1> HIDE DEF floor
<1>3. n \in Int
  <2>1. Vram!Pressure(50, taken) \in Int
    <3>1. \A f \in Int : Vram!Pressure(f, taken) \in Int
        BY PressureInt
    <3> QED BY <3>1
  <2> QED BY <1>1, <2>1
<1> HIDE DEF n
<1>4. Vram!RoundHalfEven(n, 50) \in Int
  <2>1. \A k \in Int : \A d \in Nat \ {0} : Vram!RoundHalfEven(k, d) \in Int
      BY RoundedInt
  <2>2. 50 \in Nat \ {0}
      OBVIOUS
  <2> QED BY <1>3, <2>1, <2>2
<1> QED BY <1>2, <1>4

LEMMA VramInit == Vram!Init => VramInv
<1> SUFFICES ASSUME Vram!Init PROVE VramInv
    OBVIOUS
<1>1. device.total \in Nat
    BY VramAssumption DEF Vram!Init
<1>2. \A S \in SUBSET Nat : S # {} => Vram!Min(S) \in S
  <2>1. ASSUME NEW S \in SUBSET Nat, S # {} PROVE Vram!Min(S) \in S
    <3>1. \E x \in S : \A y \in S : x <= y
        BY <2>1, LeastNat
    <3> QED BY <3>1 DEF Vram!Min
  <2> QED BY <2>1
<1>3. other \in Nat
    BY <1>2, VramAssumption DEF Vram!Init
<1>4. Vram!Min(Retargets) \in Nat \ {0}
  <2>1. Retargets \in SUBSET Nat /\ Retargets # {} /\ Retargets \subseteq Nat \ {0}
      BY VramAssumption
  <2> QED BY <1>2, <2>1
<1>5. LaneLimit \in Int
    BY VramAssumption
<1>6. backend \in BackendType
    BY <1>4, <1>5 DEF Vram!Init, BackendType, Vram!None
<1> QED BY <1>1, <1>3, <1>6 DEF Vram!Init, VramInv, BufferType, ToldType

LEMMA VramStarts ==
  ASSUME VramInv, NEW loads, Vram!Start(loads)
  PROVE  VramInv'
<1> DEFINE taken == other + Context
           m == [backend EXCEPT !.on = TRUE, !.baseline = taken]
           base == Vram!PlanFromDevice(m, taken)
           eased == Vram!Effective(m, base)
           mode == Vram!Mode(eased.lanes, loads)
<1>1. /\ ~backend.on /\ Vram!Sized(base) /\ device' = device /\ other' = other
      /\ told' = [told EXCEPT !.other = other, !.start = other, !.sound = TRUE]
      /\ backend' = [m EXCEPT !.base = base, !.plan = eased, !.mode = mode]
      /\ buffer' = [buffer EXCEPT !.count =
                      Vram!Smaller(@, IF device.engine = "native" THEN backend'.plan.lanes
                                      ELSE Vram!Together(backend'))]
    BY DEF Vram!Start, Vram!Adopt, Vram!Shed
<1>2. taken \in Nat /\ taken = other + Context
    BY VramAssumption DEF VramInv
<1>3. m \in BackendType /\ m.on /\ m.baseline = taken /\ m.plan = Vram!NoPlan
  <2> HIDE DEF taken
  <2> QED BY <1>1, <1>2 DEF VramInv, BackendType
<1> HIDE DEF m, taken
<1>4. FitPlan(base) /\ base.foreign >= taken /\ base.overhead \in Nat /\ base.foreign \in Nat
  <2>1. device.total \in Nat
      BY DEF VramInv
  <2>2. FitPlan(base) /\ base.foreign = Vram!Foreign(m, taken)
      BY <1>1, <1>2, <1>3, <2>1, SizedFits
  <2>3. Vram!Foreign(m, taken) >= taken
      BY <1>2, <1>3, ClaimedNat
  <2>4. base.overhead \in Nat /\ base.foreign \in Nat
      BY <2>2, PlanFields DEF FitPlan
  <2> QED BY <2>2, <2>3, <2>4
<1>5. /\ told' \in ToldType /\ told'.start = other /\ told'.other = other
    BY <1>1 DEF VramInv, ToldType
<1> HIDE DEF base
<1>6. mode \in {"sequential", "native", "dll-copies"}
    BY ModeType
<1> HIDE DEF mode
<1>7. backend'.plan = eased
    BY <1>1, <1>3 DEF BackendType
<1> HIDE DEF eased
<1>8. m.baseline = told'.start + Context
    BY <1>2, <1>3, <1>5
<1>9. told'.other + Context <= base.foreign + base.overhead
    BY <1>2, <1>4, <1>5
<1> QED BY <1>1, <1>3, <1>4, <1>5, <1>6, <1>7, <1>8, <1>9, PutInUse DEF eased

LEMMA VramRetargets ==
  ASSUME VramInv, NEW d \in Retargets, NEW loads, Vram!SetDifficulty(d, loads)
  PROVE  VramInv'
<1> DEFINE m == [backend EXCEPT !.diff = d]
           taken == Vram!UsedMib
           base == Vram!PlanFromDevice(m, taken)
           full == (buffer.kib * buffer.count) \div 1024 >= backend.plan.mib
           eased == Vram!Effective(m, base)
           mode == Vram!Mode(eased.lanes, loads)
<1>1. device' = device /\ other' = other
    BY DEF Vram!SetDifficulty
<1>2. d \in Nat \ {0}
    BY VramAssumption
<1>3. /\ m \in BackendType /\ m.on = backend.on /\ m.baseline = backend.baseline
      /\ m.base = backend.base /\ m.plan = backend.plan
    BY <1>2 DEF VramInv, BackendType
<1>4. CASE backend.on /\ Vram!Sized(base)
  <2>1. /\ told' = [told EXCEPT !.other = other, !.changes = @ + 1,
                                !.sound = full \/ other <= told.start]
        /\ backend' = [m EXCEPT !.base = base, !.plan = eased, !.mode = mode]
        /\ buffer' = [buffer EXCEPT !.count =
                        Vram!Smaller(@, IF device.engine = "native" THEN backend'.plan.lanes
                                        ELSE Vram!Together(backend'))]
      BY <1>4 DEF Vram!SetDifficulty, Vram!Adopt, Vram!Shed
  <2> HIDE DEF m
  <2>2. taken \in Int /\ taken = other + Context + (buffer.kib * buffer.count) \div 1024
        /\ (buffer.kib * buffer.count) \div 1024 \in Int
    <3>1. /\ (buffer.kib * buffer.count) \div 1024 \in Int /\ Vram!UsedMib \in Int
          /\ Vram!UsedMib = other + (Context + (buffer.kib * buffer.count) \div 1024)
        BY <1>4, UsedInt
    <3>2. other \in Int /\ Context \in Int
        BY VramAssumption DEF VramInv
    <3> DEFINE x == (buffer.kib * buffer.count) \div 1024
    <3> HIDE DEF x
    <3>3. Vram!UsedMib = other + Context + x
        BY <3>1, <3>2 DEF x
    <3> QED BY <3>1, <3>3 DEF x
  <2> HIDE DEF taken
  <2>3. FitPlan(base) /\ base.foreign = Vram!Foreign(m, taken)
    <3>1. device.total \in Nat
        BY DEF VramInv
    <3> QED BY <1>3, <1>4, <2>2, <3>1, SizedFits
  <2> HIDE DEF base
  <2>4. /\ InUse(backend, told) /\ FitPlan(backend.plan) /\ backend.plan \in PlanType
        /\ backend.baseline = told.start + Context
      BY <1>4 DEF VramInv, InUse, FitPlan
  <2>5. /\ backend.plan.mib \in Nat /\ backend.plan.overhead \in Nat
        /\ base.overhead \in Nat /\ base.foreign \in Nat
        /\ backend.plan.overhead = base.overhead
      BY <2>3, <2>4, PlanFields DEF FitPlan
  <2>6. told' \in ToldType /\ told'.start = told.start /\ told'.other = other
        /\ told'.sound = (full \/ other <= told.start)
    <3> DEFINE sound == full \/ other <= told.start
    <3>1. sound \in BOOLEAN
        OBVIOUS
    <3>2. told' = [told EXCEPT !.other = other, !.changes = @ + 1, !.sound = sound]
        BY <2>1
    <3> HIDE DEF sound
    <3>3. told \in ToldType /\ other \in Nat
        BY DEF VramInv
    <3>4. told.changes + 1 \in Int
        BY <3>3 DEF ToldType
    <3>5. told' \in ToldType
        BY <3>1, <3>2, <3>3, <3>4 DEF ToldType
    <3>6. told'.start = told.start /\ told'.other = other /\ told'.sound = sound
        BY <3>2, <3>3 DEF ToldType
    <3> QED BY <3>5, <3>6 DEF sound
  <2>7. told.start \in Nat /\ other \in Nat /\ Context \in Nat
      BY VramAssumption DEF VramInv, ToldType
  <2>8. m.baseline = told'.start + Context
      BY <1>3, <2>4, <2>6
  <2>9. told'.sound => told'.other + Context <= base.foreign + base.overhead
    <3>1. /\ Vram!Foreign(m, taken) >= m.baseline
          /\ Vram!Foreign(m, taken) + m.plan.overhead >= taken - m.plan.mib
        BY <1>3, <2>2, <2>4, ClaimedNat, NotNoPlan
    <3>2. base.foreign >= told.start + Context
        BY <2>3, <2>4, <1>3, <3>1
    <3>3. base.foreign + base.overhead >= taken - backend.plan.mib
        BY <1>3, <2>3, <2>5, <3>1
    <3> DEFINE x == (buffer.kib * buffer.count) \div 1024
    <3>4. x \in Int /\ taken = other + Context + x /\ (full <=> x >= backend.plan.mib)
        BY <2>2
    <3> HIDE DEF x, full
    <3>5. CASE other <= told.start
        BY <2>5, <2>6, <2>7, <3>2, <3>5
    <3>6. CASE full
        BY <2>5, <2>6, <2>7, <3>3, <3>4, <3>6
    <3> QED BY <2>6, <3>5, <3>6
  <2>10. mode \in {"sequential", "native", "dll-copies"}
      BY ModeType
  <2> HIDE DEF mode
  <2>11. backend'.plan = eased
      BY <1>3, <2>1 DEF BackendType
  <2> HIDE DEF eased, full
  <2>12. m.on
      BY <1>3, <1>4
  <2> QED BY <1>1, <1>3, <2>1, <2>3, <2>6, <2>8, <2>9, <2>10, <2>11, <2>12, PutInUse DEF eased
<1>5. CASE ~(backend.on /\ Vram!Sized(base))
  <2>1. backend' = m /\ buffer' = buffer /\ told' = [told EXCEPT !.changes = @ + 1]
      BY <1>5 DEF Vram!SetDifficulty, Vram!Change
  <2> HIDE DEF m
  <2>2. /\ told' \in ToldType /\ told'.start = told.start /\ told'.other = told.other
        /\ told'.sound = told.sound
      BY <2>1 DEF VramInv, ToldType
  <2>3. IF backend'.on THEN InUse(backend', told')
        ELSE backend'.base = Vram!NoPlan /\ backend'.plan = Vram!NoPlan
      BY <1>3, <2>1, <2>2 DEF VramInv, InUse
  <2>4. (IF backend.on THEN InUse(backend, told)
         ELSE backend.base = Vram!NoPlan /\ backend.plan = Vram!NoPlan)'
      BY <1>1, <2>3 DEF InUse, FitPlan
  <2> QED BY <1>1, <1>3, <2>1, <2>2, <2>4 DEF VramInv
<1> QED BY <1>4, <1>5

LEMMA VramReapplies ==
  ASSUME VramInv, NEW m \in BackendType, NEW loads, Vram!Reapply(m, loads),
         m.on, backend.on, m.base = backend.base, m.plan = backend.plan,
         m.baseline = backend.baseline, device' = device, other' = other,
         told' \in ToldType, told'.start = told.start, told'.other = told.other,
         told'.sound = told.sound
  PROVE  VramInv'
<1> DEFINE base == m.base
           eased == Vram!Effective(m, base)
           mode == IF eased.lanes = m.plan.lanes THEN m.mode ELSE Vram!Mode(eased.lanes, loads)
<1>1. /\ backend' = [m EXCEPT !.plan = eased, !.mode = mode]
      /\ buffer' = [buffer EXCEPT !.count =
                      Vram!Smaller(@, IF device.engine = "native" THEN backend'.plan.lanes
                                      ELSE Vram!Together(backend'))]
    BY DEF Vram!Reapply, Vram!Shed
<1>2. mode \in {"sequential", "native", "dll-copies"}
    BY ModeType, BackendFields
<1> HIDE DEF mode
<1>3. InUse(backend, told)
    BY DEF VramInv
<1>4. FitPlan(base) /\ base.foreign = backend.plan.foreign /\ base.overhead = backend.plan.overhead
    BY <1>3 DEF InUse, AlikePlans
<1>5. backend' = [m EXCEPT !.base = base, !.plan = eased, !.mode = mode]
  <2> HIDE DEF eased
  <2> QED BY <1>1 DEF BackendType
<1>6. backend'.plan = eased
  <2> HIDE DEF eased
  <2> QED BY <1>1 DEF BackendType
<1> HIDE DEF base, eased
<1>7. m.baseline = told'.start + Context
    BY <1>3 DEF InUse
<1>8. told'.sound => told'.other + Context <= base.foreign + base.overhead
    BY <1>3, <1>4 DEF InUse
<1>9. buffer' = [buffer EXCEPT !.count =
                  Vram!Smaller(@, IF device.engine = "native" THEN eased.lanes
                                  ELSE Vram!Together(backend'))]
    BY <1>1, <1>6
<1>10. eased = Vram!Effective(m, base)
    BY DEF eased
<1> QED BY <1>2, <1>4, <1>5, <1>7, <1>8, <1>9, <1>10, PutInUse

LEMMA VramWarms ==
  ASSUME VramInv, NEW warm, NEW loads, Vram!Warm(warm, loads)
  PROVE  VramInv'
<1> DEFINE degree == IF warm THEN BatchMinScale ELSE 100
           lanes == IF warm THEN Vram!Smaller(ThermalLaneMin, Vram!BiasedLanes(backend.base))
                    ELSE Vram!BiasedLanes(backend.base)
           m == [backend EXCEPT !.heat = degree, !.thermal = lanes]
<1>1. /\ backend.on /\ told' = [told EXCEPT !.changes = @ + 1] /\ Vram!Reapply(m, loads)
      /\ device' = device /\ other' = other
    BY DEF Vram!Warm, Vram!Change
<1>2. degree \in Int
    BY SettingsAssumption
<1>3. lanes \in Int
  <2>1. Vram!BiasedLanes(backend.base) \in Int
      BY <1>1, BiasedInt DEF VramInv, InUse
  <2> QED BY <2>1, SettingsAssumption DEF Vram!Smaller
<1> HIDE DEF degree, lanes
<1>4. /\ m \in BackendType /\ m.on /\ m.base = backend.base /\ m.plan = backend.plan
      /\ m.baseline = backend.baseline
    BY <1>1, <1>2, <1>3 DEF VramInv, BackendType
<1>5. /\ told' \in ToldType /\ told'.start = told.start /\ told'.other = told.other
      /\ told'.sound = told.sound
    BY <1>1 DEF VramInv, ToldType
<1> HIDE DEF m
<1> QED BY <1>1, <1>4, <1>5, VramReapplies

LEMMA VramReelsIn ==
  ASSUME VramInv, NEW loads, Vram!ReelIn(loads)
  PROVE  VramInv'
<1> DEFINE biased == Vram!BiasedLanes(backend.base)
           strain == Vram!Pressure(VramMinScale, Vram!UsedMib)
           lanes == IF biased > 1 THEN Vram!PressureCap(biased, Vram!UsedMib) ELSE Vram!None
           m == [backend EXCEPT !.pressure = strain, !.vram = lanes]
<1>1. /\ backend.on /\ told' = told /\ Vram!Reapply(m, loads)
      /\ device' = device /\ other' = other
    BY DEF Vram!ReelIn
<1>2. device.total \in Nat /\ Vram!UsedMib \in Int
    BY UsedInt DEF VramInv
<1>3. biased \in Int
    BY <1>1, BiasedInt DEF VramInv, InUse
<1> HIDE DEF biased
<1>4. strain \in Int
  <2>1. VramMinScale \in Int
      BY VramAssumption
  <2> QED BY <1>2, <2>1, PressureInt
<1>5. lanes \in Int
  <2>1. Vram!PressureCap(biased, Vram!UsedMib) \in Int
      BY <1>2, <1>3, PressureCapInt
  <2> QED BY <2>1 DEF Vram!None
<1> HIDE DEF strain, lanes
<1>6. /\ m \in BackendType /\ m.on /\ m.base = backend.base /\ m.plan = backend.plan
      /\ m.baseline = backend.baseline
    BY <1>1, <1>4, <1>5 DEF VramInv, BackendType
<1>7. /\ told' \in ToldType /\ told'.start = told.start /\ told'.other = told.other
      /\ told'.sound = told.sound
    BY <1>1 DEF VramInv
<1> HIDE DEF m
<1> QED BY <1>1, <1>6, <1>7, VramReapplies

LEMMA VramMines ==
  ASSUME VramInv, Vram!MineBatch
  PROVE  VramInv'
<1> DEFINE floor == Vram!Smaller(BatchMinScale, VramMinScale)
           scale == Vram!Clamp(Vram!Smaller(backend.heat, backend.pressure), floor, 100)
           n == backend.plan.batch * scale
<1>1. /\ backend.on /\ device' = device /\ other' = other /\ backend' = backend /\ told' = told
      /\ buffer' = [count |-> Vram!Together(backend),
                    kib |-> Vram!BatchKib(Vram!LaneBatch(backend), backend.diff)]
    BY DEF Vram!MineBatch
<1>2. backend \in BackendType /\ backend.plan \in PlanType
    BY <1>1 DEF VramInv, InUse, FitPlan
<1>3. backend.heat \in Int /\ backend.pressure \in Int /\ backend.diff \in Nat
    BY <1>2, BackendFields
<1>4. BatchMinScale \in Int /\ VramMinScale \in Int
    BY SettingsAssumption, VramAssumption
<1>5. scale \in Int
    BY <1>3, <1>4 DEF Vram!Clamp, Vram!Larger, Vram!Smaller
<1>6. Vram!LaneBatch(backend) = Vram!Larger(1, n \div 100)
    BY DEF Vram!LaneBatch
<1> HIDE DEF scale
<1>7. n \in Int
  <2>1. backend.plan.batch \in Int
      BY <1>2, PlanFields
  <2> QED BY <1>5, <2>1
<1> HIDE DEF n
<1>8. Vram!LaneBatch(backend) \in Nat
  <2>1. n \div 100 \in Int
      BY <1>7
  <2> QED BY <1>6, <2>1 DEF Vram!Larger
<1>9. Vram!BatchKib(Vram!LaneBatch(backend), backend.diff) \in Int
  <2>1. Vram!BatchKib(Vram!LaneBatch(backend), backend.diff) \in Nat
      BY <1>3, <1>8, KibType
  <2> QED BY <2>1
<1>10. Vram!Together(backend) \in Int
  <2>1. Vram!Together(backend) \in Nat \ {0}
      BY <1>2, TogetherInt
  <2> QED BY <2>1
<1>11. buffer' \in BufferType
    BY <1>1, <1>9, <1>10 DEF BufferType
<1>12. InUse(backend, told)'
    BY <1>1 DEF VramInv, InUse, FitPlan
<1> QED BY <1>1, <1>11, <1>12 DEF VramInv

LEMMA VramStep == VramInv /\ [Vram!Next]_Vram!vars => VramInv'
<1> SUFFICES ASSUME VramInv, [Vram!Next]_Vram!vars PROVE VramInv'
    OBVIOUS
<1>1. CASE UNCHANGED Vram!vars
    BY <1>1 DEF Vram!vars, VramInv, InUse, FitPlan
<1>2. CASE Vram!Stop
  <2>1. backend' \in BackendType
    <3>1. /\ backend \in BackendType /\ FALSE \in BOOLEAN
          /\ Vram!NoPlan \in PlanType \cup {Vram!NoPlan} /\ Vram!None \in Int
        BY DEF VramInv, Vram!None
    <3>2. backend' = [backend EXCEPT !.on = FALSE, !.plan = Vram!NoPlan, !.base = Vram!NoPlan,
                        !.thermal = Vram!None, !.baseline = 0, !.mode = "sequential"]
        BY <1>2 DEF Vram!Stop
    <3> QED BY <3>1, <3>2 DEF BackendType
  <2>2. ~backend'.on /\ backend'.base = Vram!NoPlan /\ backend'.plan = Vram!NoPlan
      BY <1>2 DEF Vram!Stop, VramInv, BackendType
  <2>3. buffer' \in BufferType
      BY <1>2 DEF Vram!Stop, BufferType
  <2> QED BY <1>2, <2>1, <2>2, <2>3 DEF Vram!Stop, VramInv
<1>3. CASE Vram!MineBatch
    BY <1>3, VramMines
<1>4. CASE Vram!ReduceLaneCap \/ Vram!RestoreLaneCap
  <2>1. PICK c \in Int : backend' = [backend EXCEPT !.cap = c]
    <3>1. backend.cap - 1 \in Int /\ LaneLimit \in Int
        BY BackendFields, VramAssumption DEF VramInv
    <3> QED BY <1>4, <3>1 DEF Vram!ReduceLaneCap, Vram!RestoreLaneCap
  <2>2. /\ backend' \in BackendType /\ backend'.on = backend.on /\ backend'.base = backend.base
        /\ backend'.plan = backend.plan /\ backend'.baseline = backend.baseline
      BY <2>1 DEF VramInv, BackendType
  <2>3. /\ device' = device /\ other' = other /\ buffer' = buffer
        /\ told' = [told EXCEPT !.changes = @ + 1]
      BY <1>4 DEF Vram!ReduceLaneCap, Vram!RestoreLaneCap, Vram!Change
  <2>4. /\ told' \in ToldType /\ told'.start = told.start /\ told'.other = told.other
        /\ told'.sound = told.sound
      BY <2>3 DEF VramInv, ToldType
  <2>5. backend.on => InUse(backend, told)'
      BY <2>2, <2>3, <2>4 DEF VramInv, InUse, FitPlan
  <2> QED BY <2>2, <2>3, <2>4, <2>5 DEF VramInv
<1>5. CASE \E mib \in OtherUse : Vram!OthersTake(mib)
  <2>1. /\ device' = device /\ backend' = backend /\ buffer' = buffer
        /\ told' = [told EXCEPT !.changes = @ + 1]
      BY <1>5 DEF Vram!OthersTake, Vram!Change
  <2>2. other' \in Nat
      BY <1>5, VramAssumption DEF Vram!OthersTake
  <2>3. /\ told' \in ToldType /\ told'.start = told.start /\ told'.other = told.other
        /\ told'.sound = told.sound
      BY <2>1 DEF VramInv, ToldType
  <2>4. backend.on => InUse(backend, told)'
      BY <2>1, <2>3 DEF VramInv, InUse, FitPlan
  <2> QED BY <2>1, <2>2, <2>3, <2>4 DEF VramInv
<1>6. CASE \E loads \in BOOLEAN :
              \/ Vram!Start(loads) \/ Vram!ReelIn(loads)
              \/ \E d \in Retargets : Vram!SetDifficulty(d, loads)
              \/ \E warm \in BOOLEAN : Vram!Warm(warm, loads)
    BY <1>6, VramStarts, VramReelsIn, VramRetargets, VramWarms
<1> QED BY <1>1, <1>2, <1>3, <1>4, <1>5, <1>6 DEF Vram!Next

LEMMA VramAgrees == VramInv => Vram!PlanFitsCard
<1> SUFFICES ASSUME VramInv, backend.on, told.sound, backend.plan.diff = backend.diff,
                    Vram!Together(backend) \in {1, backend.plan.conc}
             PROVE  LET taken == told.other + Context
                          + (Vram!BatchKib(backend.plan.batch, backend.diff)
                               * Vram!Together(backend)) \div 1024
                    IN  /\ taken <= Vram!TheCaps.target
                        /\ device.total - taken >= Vram!TheCaps.headroom
    BY DEF Vram!PlanFitsCard
<1> DEFINE p == backend.plan
           n == Vram!BatchKib(p.batch, p.diff)
           k == n * Vram!Together(backend)
           mib == k \div 1024
           caps == Vram!Caps(device.total)
<1>1. /\ FitPlan(p) /\ p \in PlanType /\ told.other + Context <= p.foreign + p.overhead
    BY DEF VramInv, InUse, FitPlan
<1>2. /\ p.conc \in Nat \ {0} /\ p.foreign \in Nat /\ p.overhead \in Nat /\ p.kib \in Nat
      /\ p.batch \in Nat /\ p.diff \in Nat
    BY <1>1, PlanFields
<1>3. n \in Nat /\ n * p.conc <= p.kib
    BY <1>1, <1>2, KibType DEF FitPlan
<1>4. /\ p.overhead = caps.overhead + Margin /\ Holds(device.total, p.foreign, p.kib)
    BY <1>1 DEF FitPlan
<1> HIDE DEF n
<1>5. k \in Nat /\ k <= p.kib
  <2>1. n * 1 <= n * p.conc
      BY <1>2, <1>3, Products
  <2>2. CASE Vram!Together(backend) = 1
      BY <1>2, <1>3, <2>1, <2>2
  <2>3. CASE Vram!Together(backend) = p.conc
      BY <1>2, <1>3, <2>3
  <2> QED BY <2>2, <2>3
<1> HIDE DEF k
<1>6. mib \in Nat /\ 1024 * mib <= k
    BY <1>5
<1>7. /\ caps.target \in Nat /\ caps.headroom \in Nat /\ caps.overhead \in Nat /\ Margin \in Nat
      /\ device.total \in Nat /\ told.other \in Nat /\ Context \in Nat
    BY CapsNat, VramAssumption DEF VramInv, ToldType
<1> HIDE DEF mib
<1> DEFINE taken == told.other + Context + mib
<1>8. /\ 1024 * (p.foreign + p.overhead) + p.kib <= 1024 * caps.target
      /\ 1024 * (p.foreign + p.overhead + caps.headroom) + p.kib <= 1024 * device.total
    BY <1>2, <1>4, <1>7 DEF Holds
<1>9. taken <= caps.target /\ device.total - taken >= caps.headroom
    BY <1>1, <1>2, <1>5, <1>6, <1>7, <1>8
<1> HIDE DEF p
<1>10. mib = (Vram!BatchKib(backend.plan.batch, backend.diff) * Vram!Together(backend)) \div 1024
    BY DEF mib, k, n, p
<1>11. caps = Vram!TheCaps
    BY DEF Vram!TheCaps
<1> HIDE DEF caps
<1> QED BY <1>9, <1>10, <1>11

(* vram_batch.py:190-199, cuda_native.py: a plan in use leaves the card    *)
(* what the caps promise, for every card, share and floor of the settings, *)
(* through every retarget, lane cap and stop, as long as it was made from  *)
(* a sound reading and its lanes run at a time as planned.                 *)
THEOREM PlansFitCard == ServicesSpec => []PlanFitsCard
<1> DEFINE Inv == service = "vram" => VramInv
<1>1. ServicesInit => Inv
    BY VramInit DEF ServicesInit
<1>2. Inv /\ [ServicesNext]_all => Inv'
    BY VramFrame, VramStep, ServiceStays
<1>3. Inv => PlanFitsCard
    BY VramAgrees DEF PlanFitsCard
<1> QED BY <1>1, <1>2, <1>3, PTL DEF ServicesSpec

----------------------------------------------------------------------------
(* Whatever file is shipped, and whatever becomes of it, what is saved and *)
(* used was made up before.                                                *)

Own == {"address", "worker", "name", "tracker"}
Owned(f, n) == \A i \in 1..Len(f) : f[i].key \in Own => f[i].value <= n
Entries(n) == {e \in Entry : e[3] <= n}

RunBound(r, n) ==
  /\ r \in RunType
  /\ r.todo \in Seq(Entries(n)) /\ Owned(r.text, n) /\ r.tracker <= n /\ r.name <= n
  /\ Setting(r) => r.todo # <<>>
  /\ Nears(r, "on") => r.tracker > 0

UsedBound(u, n) ==
  /\ u = [trackers |-> u.trackers, names |-> u.names]
  /\ u.trackers \subseteq 1..n /\ u.names \subseteq 0..n

IniBounds ==
  /\ start \in [Ini!Program -> RunType] /\ iniLines \in Text
  /\ fresh \in Nat /\ saved \in 0..fresh /\ starts \in 0..MaxStarts
  /\ UsedBound(used, fresh)
  /\ Owned(iniLines, fresh)
  /\ \A p \in Ini!Program : RunBound(start[p], fresh)

LEMMA EntriesMore ==
  ASSUME NEW n \in Nat, NEW m \in Nat, n <= m, NEW s \in Seq(Entries(n))
  PROVE  s \in Seq(Entries(m)) /\ s \in Seq(Entry)
<1>1. Entries(n) \subseteq Entries(m) /\ Entries(n) \subseteq Entry
  <2>1. \A e \in Entry : e[3] \in Nat
      BY DEF Entry
  <2> QED BY <2>1 DEF Entries
<1>2. Len(s) \in Nat /\ s \in [1..Len(s) -> Entries(n)]
    OBVIOUS
<1>3. s \in [1..Len(s) -> Entries(m)] /\ s \in [1..Len(s) -> Entry]
    BY <1>1, <1>2
<1> QED BY <1>2, <1>3

LEMMA OwnedMore ==
  ASSUME NEW n \in Nat, NEW m \in Nat, n <= m, NEW f \in Text, Owned(f, n)
  PROVE  Owned(f, m)
<1>1. \A i \in 1..Len(f) : f[i] \in LineType
    BY DEF Text
<1>2. \A i \in 1..Len(f) : f[i].value \in Nat
    BY <1>1 DEF LineType
<1> QED BY <1>2 DEF Owned

LEMMA BoundMore ==
  ASSUME NEW n \in Nat, NEW m \in Nat, n <= m, NEW r, RunBound(r, n)
  PROVE  RunBound(r, m)
<1>1. r \in RunType /\ r.todo \in Seq(Entries(n)) /\ Owned(r.text, n) /\ r.text \in Text
      /\ r.tracker \in Nat /\ r.name \in Nat
    BY DEF RunBound, RunType
<1>2. r.todo \in Seq(Entries(m)) /\ Owned(r.text, m)
    BY <1>1, EntriesMore, OwnedMore
<1> QED BY <1>1, <1>2 DEF RunBound

(* One program moves, and more may have been made up.                      *)
LEMMA BoundMoves ==
  ASSUME IniBounds, NEW p \in Ini!Program, NEW r, start' = [start EXCEPT ![p] = r],
         fresh' \in Nat, fresh <= fresh', RunBound(r, fresh'),
         iniLines' \in Text, Owned(iniLines', fresh'),
         saved' = saved \/ saved' \in 0..fresh', starts' \in 0..MaxStarts,
         used' = used \/ UsedBound(used', fresh')
  PROVE  IniBounds'
<1>1. /\ start \in [Ini!Program -> RunType] /\ fresh \in Nat /\ r \in RunType
      /\ \A q \in Ini!Program : RunBound(start[q], fresh)
      /\ saved \in 0..fresh /\ UsedBound(used, fresh)
    BY DEF IniBounds, RunBound
<1>2. start' \in [Ini!Program -> RunType] /\ start'[p] = r
      /\ \A q \in Ini!Program \ {p} : start'[q] = start[q]
    BY <1>1
<1>3. \A q \in Ini!Program : RunBound(start[q], fresh')
    BY <1>1, BoundMore
<1>4. \A q \in Ini!Program : RunBound(start'[q], fresh')
    BY <1>2, <1>3
<1>5. saved' \in 0..fresh'
    BY <1>1
<1>6. UsedBound(used', fresh')
    BY <1>1 DEF UsedBound
<1> QED BY <1>2, <1>4, <1>5, <1>6 DEF IniBounds, RunBound, UsedBound, Owned

(* The steps that leave the file, what is saved and what is used.          *)
LEMMA BoundGoes ==
  ASSUME IniBounds, NEW p \in Ini!Program, NEW r, start' = [start EXCEPT ![p] = r],
         fresh' \in Nat, fresh <= fresh', RunBound(r, fresh'),
         UNCHANGED <<iniLines, starts, saved, used>>
  PROVE  IniBounds'
<1>1. iniLines' \in Text /\ starts' \in 0..MaxStarts /\ saved' = saved /\ used' = used
    BY DEF IniBounds
<1>2. Owned(iniLines, fresh')
    BY OwnedMore DEF IniBounds
<1> QED BY <1>1, <1>2, BoundMoves

LEMMA IdleBound ==
  ASSUME NEW n \in Nat
  PROVE  RunBound(Ini!Idle, n)
<1>1. Ini!Idle \in RunType
    BY KeysOfNone DEF Ini!Idle, RunType, Text
<1>2. Ini!Idle.at = "out" /\ Ini!Idle.todo = <<>> /\ Ini!Idle.text = <<>>
      /\ Ini!Idle.tracker = 0 /\ Ini!Idle.name = 0
    BY DEF Ini!Idle
<1>3. Owned(<<>>, n)
    BY DEF Owned
<1> QED BY <1>1, <1>2, <1>3 DEF RunBound, Setting, Nears

(* A value of the install's own, read of a file.                           *)
LEMMA OwnValue ==
  ASSUME NEW n \in Nat, iniLines \in Text, Owned(iniLines, n), NEW section, NEW key \in Own
  PROVE  Ini!Value(section, key) \in 0..n
<1> DEFINE hits == {i \in DOMAIN iniLines : Ini!IsSet(iniLines[i], section, key)}
<1>1. \A i \in hits : i \in Nat /\ iniLines[i].value \in 0..n
  <2>1. DOMAIN iniLines = 1..Len(iniLines) /\ Len(iniLines) \in Nat
        /\ \A i \in 1..Len(iniLines) : iniLines[i] \in LineType
      BY DEF Text
  <2> QED BY <2>1 DEF LineType, Owned, Ini!IsSet
<1>3. Ini!Value(section, key) = IF hits = {} THEN 0 ELSE iniLines[Ini!Min(hits)].value
    BY DEF Ini!Value
<1> HIDE DEF hits
<1>4. CASE hits # {}
  <2>1. hits \in SUBSET Nat
      BY <1>1
  <2>2. PICK i \in hits : \A j \in hits : i <= j
      BY <1>4, <2>1, LeastNat
  <2>3. Ini!Min(hits) \in hits
      BY <2>2 DEF Ini!Min
  <2> QED BY <1>1, <1>3, <1>4, <2>3
<1>5. CASE hits = {}
    BY <1>3, <1>5
<1> QED BY <1>4, <1>5

(* _set_ini_value() on a file of any form.                                 *)
LEMMA OwnEdited ==
  ASSUME NEW n \in Nat, iniLines \in Text, Owned(iniLines, n), NEW e \in Entries(n)
  PROVE  Ini!Edited(e[1], e[2], e[3]) \in Text /\ Owned(Ini!Edited(e[1], e[2], e[3]), n)
<1> DEFINE g == Ini!Edited(e[1], e[2], e[3])
           v == e[3]
<1>1. /\ iniLines \in Text /\ Len(iniLines) \in Nat /\ DOMAIN iniLines = 1..Len(iniLines)
      /\ \A i \in 1..Len(iniLines) : /\ iniLines[i] \in LineType
                                     /\ iniLines[i].key \in Own => iniLines[i].value <= n
    BY DEF Text, Owned
<1>2. e[1] \in {"account", "monitoring"} /\ e[2] \in Own /\ v \in Nat /\ v <= n
    BY DEF Entries, Entry, Own
<1>3. CASE \E i \in DOMAIN iniLines : Ini!IsSet(iniLines[i], e[1], e[2])
  <2>1. g = [i \in 1..Len(iniLines) |->
                IF Ini!IsSet(iniLines[i], e[1], e[2])
                THEN [iniLines[i] EXCEPT !.value = v] ELSE iniLines[i]]
      BY <1>1, <1>3 DEF Ini!Edited
  <2> HIDE DEF v
  <2>2. ASSUME NEW i \in 1..Len(iniLines)
        PROVE  g[i] \in LineType /\ (g[i].key \in Own => g[i].value <= n)
    <3> DEFINE l == iniLines[i]
    <3>1. l \in LineType /\ (l.key \in Own => l.value <= n)
        BY <1>1
    <3>2. g[i] = l \/ g[i] = [l EXCEPT !.value = v]
        BY <2>1
    <3> HIDE DEF g, l
    <3>3. [l EXCEPT !.value = v] \in LineType /\ [l EXCEPT !.value = v].value = v
        BY <1>2, <3>1 DEF LineType
    <3> QED BY <1>2, <3>1, <3>2, <3>3
  <2>3. g = [i \in 1..Len(iniLines) |-> g[i]]
      BY <2>1
  <2> HIDE DEF g
  <2>4. g \in [1..Len(iniLines) -> LineType]
      BY <2>2, <2>3
  <2>5. g \in Text /\ Len(g) = Len(iniLines)
      BY <1>1, <2>4 DEF Text
  <2>6. Owned(g, n)
      BY <2>2, <2>5 DEF Owned
  <2> QED BY <2>5, <2>6 DEF g, v
<1>4. CASE ~\E i \in DOMAIN iniLines : Ini!IsSet(iniLines[i], e[1], e[2])
  <2> DEFINE s == Ini!AtEnd(e[1])
             l == Ini!Line(s, e[2], v)
  <2>1. s \in {"none", "account", "server", "monitoring", "cuda"}
    <3>1. CASE \E i \in DOMAIN iniLines : iniLines[i].section = e[1]
      <4>1. Len(iniLines) \in 1..Len(iniLines)
          BY <1>1, <3>1
      <4>2. s = iniLines[Len(iniLines)].section
          BY <3>1 DEF Ini!AtEnd, Ini!Last
      <4>3. iniLines[Len(iniLines)] \in LineType
          BY <1>1, <4>1
      <4> HIDE DEF s
      <4> QED BY <4>2, <4>3 DEF LineType
    <3>2. CASE ~\E i \in DOMAIN iniLines : iniLines[i].section = e[1]
        BY <1>2, <3>2 DEF Ini!AtEnd
    <3> QED BY <3>1, <3>2
  <2>3. g = Append(iniLines, l)
      BY <1>4 DEF Ini!Edited
  <2> HIDE DEF s, v
  <2>2. l \in LineType /\ l.value = v
      BY <1>2, <2>1 DEF Ini!Line, LineType, Own
  <2> HIDE DEF g, l
  <2>4. g \in Text /\ Len(g) = Len(iniLines) + 1 /\ g[Len(iniLines) + 1] = l
        /\ \A i \in 1..Len(iniLines) : g[i] = iniLines[i]
      BY <1>1, <2>2, <2>3 DEF Text
  <2>5. \A i \in 1..Len(g) : g[i].key \in Own => g[i].value <= n
    <3> TAKE i \in 1..Len(g)
    <3>1. i = Len(iniLines) + 1 \/ i \in 1..Len(iniLines)
        BY <1>1, <2>4
    <3> QED BY <1>1, <1>2, <2>2, <2>4, <3>1
  <2>6. Owned(g, n)
      BY <2>5 DEF Owned
  <2> QED BY <2>4, <2>6 DEF g, v
<1> QED BY <1>3, <1>4

(* The shipped file, of either form, holds nothing of an install's own.    *)
LEMMA ShippedOwned ==
  ASSUME NEW n \in Nat
  PROVE  Ini!Shipped \in Text /\ Owned(Ini!Shipped, n)
<1> DEFINE x == Ini!Example
           L == {l \in LineType : l.key \in Own => l.value <= n}
<1>1. Len(x) = 6 /\ \A i \in 1..6 : x[i] \in L
  <2>1. /\ Len(x) = 6
        /\ x[1] = Ini!Line("account", "address", 0) /\ x[2] = Ini!Line("account", "worker", 0)
        /\ x[3] = Ini!Line("server", "base_url", 1) /\ x[4] = Ini!Line("monitoring", "name", 0)
        /\ x[5] = Ini!Line("monitoring", "tracker", 0) /\ x[6] = Ini!Line("cuda", "dll", 1)
      BY DEF Ini!Example
  <2> HIDE DEF x
  <2>2. /\ x[1] \in L /\ x[2] \in L /\ x[3] \in L /\ x[4] \in L /\ x[5] \in L /\ x[6] \in L
      BY <2>1 DEF Ini!Line, LineType, Own
  <2>3. \A i \in 1..6 : i = 1 \/ i = 2 \/ i = 3 \/ i = 4 \/ i = 5 \/ i = 6
      OBVIOUS
  <2> QED BY <2>1, <2>2, <2>3
<1>2. x \in Seq(L)
  <2>1. DOMAIN x = 1..6 /\ x = [i \in 1..6 |-> x[i]]
      BY DEF Ini!Example
  <2> HIDE DEF x, L
  <2>2. Len(x) \in Nat /\ x \in [1..Len(x) -> L]
      BY <1>1, <2>1
  <2> QED BY <2>2
<1> HIDE DEF x, L
<1>3. SubSeq(x, 1, 4) \in Seq(L) /\ SubSeq(x, 6, 6) \in Seq(L)
    BY <1>1, <1>2
<1>4. SubSeq(x, 1, 4) \o SubSeq(x, 6, 6) \in Seq(L)
    BY <1>3
<1>5. Ini!Shipped \in Seq(L)
    BY <1>2, <1>4 DEF Ini!Shipped, x
<1>6. ASSUME NEW f \in Seq(L) PROVE f \in Text /\ Owned(f, n)
  <2>1. Len(f) \in Nat /\ f \in [1..Len(f) -> L]
      OBVIOUS
  <2>2. f \in [1..Len(f) -> LineType] /\ \A i \in 1..Len(f) : f[i] \in L
      BY <2>1 DEF L
  <2> QED BY <2>1, <2>2 DEF Text, Owned, L
<1> QED BY <1>5, <1>6

(* A program goes to a step, with what is to be set or without.            *)
LEMMA GoneTo ==
  ASSUME IniBounds, NEW p \in Ini!Program, NEW n \in Nat, fresh <= n,
         NEW step \in {"out", "wallet", "names", "read", "write", "load", "on", "mining"},
         NEW todo \in Seq(Entries(n)), NEW next \in {"out", "names", "load", "on"},
         Ini!Goes(p, step, todo, next),
         step \in {"read", "write"} => todo # <<>> /\ next # "on",
         step = "on" => start[p].tracker > 0
  PROVE  \E r : start' = [start EXCEPT ![p] = r] /\ RunBound(r, n)
<1> DEFINE r == [start[p] EXCEPT !.at = step, !.todo = todo, !.next = next]
<1>1. start' = [start EXCEPT ![p] = r]
    BY DEF Ini!Goes, IniBounds
<1>2. start[p] \in RunType /\ RunBound(start[p], n)
  <2>1. RunBound(start[p], fresh) /\ fresh \in Nat
      BY DEF IniBounds
  <2>2. RunBound(start[p], n)
      BY <2>1, BoundMore
  <2> QED BY <2>2 DEF RunBound
<1>3. todo \in Seq(Entry)
    BY EntriesMore
<1>4. /\ r \in RunType /\ r.at = step /\ r.todo = todo /\ r.next = next
      /\ r.text = start[p].text /\ r.tracker = start[p].tracker /\ r.name = start[p].name
    BY <1>2, <1>3 DEF RunType
<1> HIDE DEF r
<1>5. RunBound(r, n)
    BY <1>2, <1>4 DEF RunBound, Setting, Nears
<1> QED BY <1>1, <1>5

LEMMA BoundStarts ==
  ASSUME IniBounds, NEW p \in Ini!Program, Ini!Start(p)
  PROVE  IniBounds'
<1> DEFINE step == IF p = "miner" THEN "wallet" ELSE "load"
           none == <<>>
<1>1. /\ fresh \in Nat /\ fresh' = fresh /\ starts \in Nat /\ starts' = starts + 1 /\ starts < MaxStarts
      /\ saved' = saved /\ used' = used /\ Ini!Goes(p, step, none, "out")
      /\ iniLines' = Ini!Shipped \/ iniLines' = iniLines
    BY DEF Ini!Start, IniBounds
<1>2. step \in {"out", "wallet", "names", "read", "write", "load", "on", "mining"}
      /\ step \notin {"read", "write"} /\ step # "on" /\ none \in Seq(Entries(fresh))
    OBVIOUS
<1> HIDE DEF step, none
<1>3. PICK r : start' = [start EXCEPT ![p] = r] /\ RunBound(r, fresh)
  <2>1. "out" \in {"out", "names", "load", "on"} /\ fresh <= fresh
      BY <1>1
  <2> QED BY <1>1, <1>2, <2>1, GoneTo
<1>4. iniLines' \in Text /\ Owned(iniLines', fresh)
  <2>1. Ini!Shipped \in Text /\ Owned(Ini!Shipped, fresh)
      BY <1>1, ShippedOwned
  <2>2. iniLines \in Text /\ Owned(iniLines, fresh)
      BY DEF IniBounds
  <2> QED BY <1>1, <2>1, <2>2 DEF Owned
<1>5. starts' \in 0..MaxStarts
    BY <1>1, BoundsAssumption
<1>6. fresh' \in Nat /\ fresh <= fresh' /\ RunBound(r, fresh') /\ Owned(iniLines', fresh')
    BY <1>1, <1>3, <1>4
<1> QED BY <1>1, <1>3, <1>4, <1>5, <1>6, BoundMoves

(* A program goes to set things, or on to the step after that.             *)
LEMMA BoundSets ==
  ASSUME IniBounds, NEW p \in Ini!Program, NEW next \in {"names", "load"},
         fresh' \in Nat, fresh <= fresh', NEW todo \in Seq(Entries(fresh')),
         Ini!Sets(p, todo, next), UNCHANGED <<iniLines, starts, saved, used>>
  PROVE  IniBounds'
<1> DEFINE step == IF todo = <<>> THEN next ELSE "read"
<1>1. Ini!Goes(p, step, todo, next)
    BY DEF Ini!Sets
<1>2. step \in {"out", "wallet", "names", "read", "write", "load", "on", "mining"}
      /\ (step \in {"read", "write"} => todo # <<>> /\ next # "on") /\ step # "on"
    OBVIOUS
<1> HIDE DEF step
<1>3. \E r : start' = [start EXCEPT ![p] = r] /\ RunBound(r, fresh')
    BY <1>1, <1>2, GoneTo
<1> QED BY <1>3, BoundGoes

LEMMA BoundWallet ==
  ASSUME IniBounds, NEW p \in Ini!Program, NEW asked \in BOOLEAN, NEW typed \in BOOLEAN,
         Ini!EnsureWallet(p, asked, typed)
  PROVE  IniBounds'
<1> DEFINE wallet == IF Ini!NeedsWallet THEN Ini!SavedWallet(typed) ELSE <<>>
           a == <<"account", "address", Ini!TypedWallet>>
           w == <<"account", "worker", Ini!TypedName>>
           m == <<"monitoring", "name", Ini!TypedName>>
           X == Entries(fresh')
           first == <<a>>
           second == <<w>>
           third == <<m>>
<1>1. /\ IF typed THEN Ini!Sets(p, wallet \o Ini!AppliedName, "load") ELSE Ini!Sets(p, wallet, "names")
      /\ typed => fresh' = Ini!TypedName
      /\ ~typed /\ Ini!NeedsWallet => fresh' = Ini!TypedWallet
      /\ ~typed /\ ~Ini!NeedsWallet => fresh' = fresh
      /\ UNCHANGED <<iniLines, starts, saved, used>>
    BY DEF Ini!EnsureWallet
<1>2. fresh \in Nat /\ Ini!TypedWallet = fresh + 1 /\ Ini!TypedName = fresh + 2
    BY DEF IniBounds, Ini!TypedWallet, Ini!TypedName
<1>3. fresh' \in Nat /\ fresh <= fresh'
    BY <1>1, <1>2
<1>4. /\ typed => a \in X /\ w \in X /\ m \in X
      /\ Ini!NeedsWallet => a \in X
  <2>1. a \in Entry /\ w \in Entry /\ m \in Entry
      BY <1>2 DEF Entry
  <2>2. a[3] = fresh + 1 /\ w[3] = fresh + 2 /\ m[3] = fresh + 2
      BY <1>2
  <2> HIDE DEF a, w, m
  <2> QED BY <1>1, <1>2, <2>1, <2>2 DEF Entries
<1>5. /\ Ini!AppliedName = second \o third
      /\ Ini!SavedWallet(typed) = first \o IF typed THEN second ELSE <<>>
    BY DEF Ini!AppliedName, Ini!SavedWallet
<1> HIDE DEF first, second, third, a, w, m, X
<1>6. /\ typed => second \in Seq(X) /\ third \in Seq(X)
      /\ Ini!NeedsWallet => first \in Seq(X)
  <2>1. \A e \in X : <<e>> \in Seq(X)
      OBVIOUS
  <2>2. typed => second \in Seq(X)
      BY <1>4, <2>1 DEF second
  <2>3. typed => third \in Seq(X)
      BY <1>4, <2>1 DEF third
  <2>4. Ini!NeedsWallet => first \in Seq(X)
      BY <1>4, <2>1 DEF first
  <2> QED BY <2>2, <2>3, <2>4
<1>7. /\ typed => Ini!AppliedName \in Seq(X)
      /\ Ini!NeedsWallet => Ini!SavedWallet(typed) \in Seq(X)
  <2>1. typed => second \o third \in Seq(X)
      BY <1>6
  <2>2. Ini!NeedsWallet => first \o (IF typed THEN second ELSE <<>>) \in Seq(X)
      BY <1>6
  <2> QED BY <1>5, <2>1, <2>2
<1>8. wallet \in Seq(X)
    BY <1>7
<1> HIDE DEF wallet
<1>9. CASE typed
  <2> DEFINE todo == wallet \o Ini!AppliedName
  <2>1. todo \in Seq(X) /\ Ini!Sets(p, todo, "load")
      BY <1>1, <1>7, <1>8, <1>9
  <2> HIDE DEF todo
  <2> QED BY <1>1, <1>3, <2>1, BoundSets DEF X
<1>10. CASE ~typed
    BY <1>1, <1>3, <1>8, <1>10, BoundSets DEF X
<1> QED BY <1>9, <1>10

LEMMA BoundNames ==
  ASSUME IniBounds, NEW p \in Ini!Program, Ini!EnsureWorkerId(p)
  PROVE  IniBounds'
<1> DEFINE worker2 == Ini!Value("account", "worker")
           custom == Ini!Value("monitoring", "name")
           name == CASE worker2 # 0 -> worker2
                     [] worker2 = 0 /\ custom # 0 -> custom
                     [] worker2 = 0 /\ custom = 0 -> fresh + 1
           w == <<"account", "worker", name>>
           m == <<"monitoring", "name", name>>
           line == <<w>>
           next == <<m>>
           one == IF worker2 = 0 THEN line ELSE <<>>
           two == IF custom = 0 THEN next ELSE <<>>
           todo == one \o two
           X == Entries(fresh')
<1>1. /\ Ini!Sets(p, todo, "load")
      /\ fresh' = IF worker2 = 0 /\ custom = 0 THEN fresh + 1 ELSE fresh
      /\ UNCHANGED <<iniLines, starts, saved, used>>
    BY DEF Ini!EnsureWorkerId
<1>2. fresh \in Nat /\ worker2 \in 0..fresh /\ custom \in 0..fresh
    BY OwnValue DEF IniBounds, Own
<1>3. fresh' \in Nat /\ fresh <= fresh' /\ name \in Nat \ {0} /\ name <= fresh'
  <2> HIDE DEF worker2, custom
  <2> QED BY <1>1, <1>2
<1> HIDE DEF name
<1>4. w \in X /\ m \in X
  <2>1. w \in Entry /\ m \in Entry /\ w[3] = name /\ m[3] = name
      BY <1>3 DEF Entry
  <2> HIDE DEF w, m
  <2> QED BY <1>3, <2>1 DEF Entries
<1> HIDE DEF line, next, w, m, X
<1>5. line \in Seq(X) /\ next \in Seq(X) /\ <<>> \in Seq(X)
  <2>1. \A e \in X : <<e>> \in Seq(X)
      OBVIOUS
  <2>2. line \in Seq(X)
      BY <1>4, <2>1 DEF line
  <2>3. next \in Seq(X)
      BY <1>4, <2>1 DEF next
  <2> QED BY <2>2, <2>3
<1>6. one \in Seq(X) /\ two \in Seq(X)
    BY <1>5
<1> HIDE DEF one, two
<1>7. todo \in Seq(X)
    BY <1>6
<1> HIDE DEF todo
<1> QED BY <1>1, <1>3, <1>7, BoundSets DEF X

LEMMA BoundReads ==
  ASSUME IniBounds, NEW p \in Ini!Program, Ini!Read(p)
  PROVE  IniBounds'
<1> DEFINE e == Head(start[p].todo)
           edited == Ini!Edited(e[1], e[2], e[3])
           r == [start[p] EXCEPT !.at = "write", !.text = edited]
<1>1. /\ start[p].at = "read" /\ UNCHANGED <<iniLines, fresh, starts, saved, used>>
      /\ start' = [start EXCEPT ![p] = r]
    BY DEF Ini!Read, IniBounds
<1>2. start[p] \in RunType /\ RunBound(start[p], fresh) /\ fresh \in Nat
      /\ iniLines \in Text /\ Owned(iniLines, fresh)
    BY DEF IniBounds
<1>3. start[p].todo \in Seq(Entries(fresh)) /\ start[p].todo # <<>> /\ Setting(start[p])
    BY <1>1, <1>2 DEF RunBound, Setting
<1>4. e \in Entries(fresh)
    BY <1>3
<1> HIDE DEF e
<1>5. edited \in Text /\ Owned(edited, fresh)
    BY <1>2, <1>4, OwnEdited
<1> HIDE DEF edited
<1>6. /\ r \in RunType /\ r.at = "write" /\ r.text = edited /\ r.todo = start[p].todo
      /\ r.next = start[p].next /\ r.tracker = start[p].tracker /\ r.name = start[p].name
    BY <1>2, <1>5 DEF RunType
<1> HIDE DEF r
<1>7. RunBound(r, fresh)
    BY <1>2, <1>3, <1>5, <1>6 DEF RunBound, Setting, Nears
<1>8. fresh' \in Nat /\ fresh <= fresh' /\ RunBound(r, fresh')
    BY <1>1, <1>2, <1>7
<1> QED BY <1>1, <1>8, BoundGoes

LEMMA BoundWrites ==
  ASSUME IniBounds, NEW p \in Ini!Program, Ini!Write(p)
  PROVE  IniBounds'
<1> DEFINE todo == start[p].todo
           rest == Tail(todo)
           step == IF rest = <<>> THEN start[p].next ELSE "read"
           none == <<>>
           r == [start[p] EXCEPT !.todo = rest, !.text = none, !.at = step]
           e == Head(todo)
<1>1. /\ start[p].at = "write" /\ iniLines' = start[p].text
      /\ start' = [start EXCEPT ![p] = r]
      /\ saved' = IF e[2] = "address" THEN e[3] ELSE saved
      /\ UNCHANGED <<fresh, starts, used>>
    BY DEF Ini!Write, IniBounds
<1>2. start[p] \in RunType /\ RunBound(start[p], fresh) /\ fresh \in Nat
      /\ starts \in 0..MaxStarts /\ saved \in 0..fresh
    BY DEF IniBounds
<1>3. todo \in Seq(Entries(fresh)) /\ todo # <<>> /\ Setting(start[p])
    BY <1>1, <1>2 DEF RunBound, Setting
<1>4. e \in Entries(fresh) /\ rest \in Seq(Entries(fresh)) /\ rest \in Seq(Entry)
  <2>1. e \in Entries(fresh) /\ rest \in Seq(Entries(fresh))
      BY <1>3
  <2> HIDE DEF rest, e
  <2>2. fresh <= fresh
      BY <1>2
  <2> QED BY <1>2, <2>1, <2>2, EntriesMore
<1>5. e[3] \in 0..fresh
    BY <1>2, <1>4 DEF Entries, Entry
<1>6. start[p].next \in {"out", "names", "load", "on"} /\ step \in {start[p].next, "read"}
      /\ (step = "read" => rest # <<>>)
    BY <1>2 DEF RunType
<1>7. none \in Text /\ Owned(none, fresh)
    BY DEF Text, Owned
<1> HIDE DEF e, rest, step, none, todo
<1>8. /\ r \in RunType /\ r.at = step /\ r.text = none /\ r.todo = rest
      /\ r.next = start[p].next /\ r.tracker = start[p].tracker /\ r.name = start[p].name
    BY <1>2, <1>4, <1>6, <1>7 DEF RunType
<1> HIDE DEF r
<1>9. RunBound(r, fresh)
  <2>1. Nears(r, "on") => Nears(start[p], "on")
      BY <1>3, <1>6, <1>8 DEF Nears, Setting
  <2> QED BY <1>2, <1>4, <1>6, <1>7, <1>8, <2>1 DEF RunBound, Setting
<1>10. iniLines' \in Text /\ Owned(iniLines', fresh')
    BY <1>1, <1>2 DEF RunBound, RunType
<1>11. fresh' \in Nat /\ fresh <= fresh' /\ RunBound(r, fresh') /\ starts' \in 0..MaxStarts
       /\ saved' \in 0..fresh' /\ used' = used
    BY <1>1, <1>2, <1>5, <1>9
<1> QED BY <1>1, <1>10, <1>11, BoundMoves

LEMMA BoundFails ==
  ASSUME IniBounds, NEW p \in Ini!Program, Ini!Fails(p), UNCHANGED <<fresh, starts, saved, used>>,
         iniLines' = iniLines \/ iniLines' = <<>>
  PROVE  IniBounds'
<1>1. start' = [start EXCEPT ![p] = Ini!Idle]
    BY DEF Ini!Fails
<1>2. fresh \in Nat /\ fresh' = fresh /\ iniLines \in Text /\ Owned(iniLines, fresh)
      /\ starts' \in 0..MaxStarts /\ used' = used /\ saved' = saved
    BY DEF IniBounds
<1>3. <<>> \in Text /\ Owned(<<>>, fresh)
    BY DEF Text, Owned
<1>4. iniLines' \in Text /\ Owned(iniLines', fresh')
    BY <1>2, <1>3
<1>5. RunBound(Ini!Idle, fresh') /\ fresh' \in Nat /\ fresh <= fresh'
    BY <1>2, IdleBound
<1> QED BY <1>1, <1>2, <1>4, <1>5, BoundMoves

LEMMA BoundDenied ==
  ASSUME IniBounds, NEW p \in Ini!Program, Ini!Denied(p)
  PROVE  IniBounds'
<1>1. /\ Setting(start[p]) /\ UNCHANGED <<iniLines, fresh, starts, saved, used>>
      /\ IF start[p].next = "on" THEN Ini!Goes(p, "on", <<>>, "on") ELSE Ini!Fails(p)
    BY DEF Ini!Denied, Setting
<1>2. CASE start[p].next = "on"
  <2> DEFINE none == <<>>
             step == "on"
  <2>1. /\ fresh \in Nat /\ fresh <= fresh /\ start[p].tracker > 0
        /\ none \in Seq(Entries(fresh)) /\ Ini!Goes(p, step, none, step)
      BY <1>1, <1>2 DEF IniBounds, RunBound, Nears
  <2>2. step \in {"out", "wallet", "names", "read", "write", "load", "on", "mining"}
        /\ step \in {"out", "names", "load", "on"} /\ step \notin {"read", "write"}
      OBVIOUS
  <2> HIDE DEF none, step
  <2>3. PICK r : start' = [start EXCEPT ![p] = r] /\ RunBound(r, fresh)
      BY <2>1, <2>2, GoneTo
  <2>4. fresh' \in Nat /\ fresh <= fresh' /\ RunBound(r, fresh')
      BY <1>1, <2>1, <2>3
  <2> QED BY <1>1, <2>3, <2>4, BoundGoes
<1>3. CASE start[p].next # "on"
    BY <1>1, <1>3, BoundFails
<1> QED BY <1>2, <1>3

LEMMA BoundLoads ==
  ASSUME IniBounds, NEW p \in Ini!Program, Ini!Load(p)
  PROVE  IniBounds'
<1> DEFINE known == Ini!Value("monitoring", "tracker")
           id == IF known = 0 THEN fresh + 1 ELSE known
           e == <<"monitoring", "tracker", id>>
           missing == IF known = 0 THEN <<e>> ELSE <<>>
           name == Ini!Value("monitoring", "name")
           step == IF known = 0 THEN "read" ELSE "on"
           r == [start[p] EXCEPT !.todo = missing, !.tracker = id, !.next = "on",
                                 !.name = name, !.at = step]
<1>1. /\ UNCHANGED <<iniLines, starts, saved, used>>
      /\ start' = [start EXCEPT ![p] = r]
      /\ fresh' = IF known = 0 THEN fresh + 1 ELSE fresh
    BY DEF Ini!Load, IniBounds
<1>2. start[p] \in RunType /\ RunBound(start[p], fresh) /\ fresh \in Nat
      /\ known \in 0..fresh /\ name \in 0..fresh
    BY OwnValue DEF IniBounds, Own
<1> HIDE DEF known, name
<1>3. id \in Nat \ {0} /\ id <= fresh' /\ fresh' \in Nat /\ fresh <= fresh'
    BY <1>1, <1>2
<1> HIDE DEF id
<1>4. e \in Entries(fresh')
  <2>1. e \in Entry /\ e[3] = id
      BY <1>3 DEF Entry
  <2> HIDE DEF e
  <2> QED BY <1>3, <2>1 DEF Entries
<1> HIDE DEF e
<1>5. missing \in Seq(Entries(fresh')) /\ step \in {"read", "on"}
      /\ (step = "read" => missing # <<>>)
    BY <1>4
<1> HIDE DEF missing, step
<1>6. missing \in Seq(Entry)
  <2>1. fresh' <= fresh'
      BY <1>3
  <2> QED BY <1>3, <1>5, <2>1, EntriesMore
<1>7. /\ r \in RunType /\ r.at = step /\ r.todo = missing /\ r.next = "on"
      /\ r.tracker = id /\ r.name = name /\ r.text = start[p].text
  <2>1. /\ name \in Nat /\ id \in Nat /\ start[p] \in RunType
        /\ step \in {"out", "wallet", "names", "read", "write", "load", "on", "mining"}
      BY <1>2, <1>3, <1>5
  <2> QED BY <1>6, <2>1 DEF RunType
<1> HIDE DEF r
<1>8. Owned(start[p].text, fresh')
    BY <1>2, <1>3, OwnedMore DEF RunBound, RunType
<1>9. RunBound(r, fresh')
    BY <1>2, <1>3, <1>5, <1>7, <1>8 DEF RunBound, Setting
<1> QED BY <1>1, <1>3, <1>9, BoundGoes

LEMMA BoundMines ==
  ASSUME IniBounds, NEW p \in Ini!Program, Ini!Mine(p)
  PROVE  IniBounds'
<1> DEFINE none == <<>>
           step == "mining"
           more == [trackers |-> used.trackers \cup {start[p].tracker},
                    names |-> used.names \cup {start[p].name}]
<1>1. /\ start[p].at = "on" /\ UNCHANGED <<iniLines, fresh, starts, saved>>
      /\ Ini!Goes(p, step, none, "out") /\ used' = more
    BY DEF Ini!Mine
<1>2. /\ fresh \in Nat /\ fresh <= fresh /\ none \in Seq(Entries(fresh))
      /\ step \in {"out", "wallet", "names", "read", "write", "load", "on", "mining"}
      /\ "out" \in {"out", "names", "load", "on"} /\ step \notin {"read", "write"} /\ step # "on"
    BY DEF IniBounds
<1> HIDE DEF none, step
<1>3. PICK r : start' = [start EXCEPT ![p] = r] /\ RunBound(r, fresh)
    BY <1>1, <1>2, GoneTo
<1>4. UsedBound(more, fresh)
  <2>1. /\ start[p].tracker \in 1..fresh /\ start[p].name \in 0..fresh
      BY <1>1, <1>2 DEF IniBounds, RunBound, RunType, Nears
  <2>2. used.trackers \subseteq 1..fresh /\ used.names \subseteq 0..fresh
      BY DEF IniBounds, UsedBound
  <2> QED BY <2>1, <2>2 DEF UsedBound
<1> HIDE DEF more
<1>5. /\ fresh' \in Nat /\ fresh <= fresh' /\ RunBound(r, fresh') /\ UsedBound(used', fresh')
      /\ iniLines' \in Text /\ Owned(iniLines', fresh') /\ saved' = saved
      /\ starts' \in 0..MaxStarts
    BY <1>1, <1>2, <1>3, <1>4 DEF IniBounds
<1> QED BY <1>3, <1>5, BoundMoves

LEMMA BoundStep == IniBounds /\ [Ini!Next]_Ini!vars => IniBounds'
<1> SUFFICES ASSUME IniBounds, [Ini!Next]_Ini!vars PROVE IniBounds'
    OBVIOUS
<1>1. CASE UNCHANGED Ini!vars
    BY <1>1 DEF Ini!vars, IniBounds, RunBound, UsedBound, Owned
<1>2. CASE Ini!Next
  <2>1. PICK p \in Ini!Program :
           \/ Ini!Start(p) \/ Ini!EnsureWorkerId(p) \/ Ini!Read(p) \/ Ini!Write(p)
           \/ Ini!Load(p) \/ Ini!Denied(p) \/ Ini!Mine(p) \/ Ini!Refuse(p) \/ Ini!Leave(p)
           \/ \E asked, typed \in BOOLEAN : Ini!EnsureWallet(p, asked, typed)
      BY <1>2 DEF Ini!Next
  <2>2. ASSUME Ini!Refuse(p) \/ Ini!Leave(p) PROVE IniBounds'
    <3>1. /\ Ini!Fails(p) /\ UNCHANGED <<fresh, starts, saved, used>>
          /\ iniLines' = iniLines \/ iniLines' = <<>>
        BY <2>2 DEF Ini!Refuse, Ini!Leave
    <3> QED BY <3>1, BoundFails
  <2> QED BY <2>1, <2>2, BoundStarts, BoundNames, BoundReads, BoundWrites, BoundLoads,
             BoundDenied, BoundMines, BoundWallet
<1> QED BY <1>1, <1>2

LEMMA IniTyped == ServicesSpec => [](service = "ini" => Ini!TypeOK)
<1> DEFINE Inv == service = "ini" => IniBounds
<1>1. Ini!Init => IniBounds
  <2> SUFFICES ASSUME Ini!Init PROVE IniBounds
      OBVIOUS
  <2>1. /\ iniLines = Ini!Absent /\ start = [p \in Ini!Program |-> Ini!Idle]
        /\ fresh = 0 /\ starts = 0 /\ saved = 0 /\ used = [trackers |-> {}, names |-> {}]
      BY DEF Ini!Init
  <2>2. Ini!Idle \in RunType /\ RunBound(Ini!Idle, 0)
      BY IdleBound DEF RunBound
  <2>3. Ini!Absent \in Text /\ Owned(Ini!Absent, 0)
    <3>1. Len(Ini!Absent) = 1 /\ Ini!Absent[1].key = "none"
        BY DEF Ini!Absent, Ini!Line
    <3> QED BY <3>1, AbsentIsBroken DEF BrokenText, Owned, Own
  <2>4. used.trackers = {} /\ used.names = {} /\ UsedBound(used, 0)
      BY <2>1 DEF UsedBound
  <2>5. start \in [Ini!Program -> RunType] /\ \A p \in Ini!Program : RunBound(start[p], 0)
      BY <2>1, <2>2
  <2> QED BY <2>1, <2>3, <2>4, <2>5, BoundsAssumption DEF IniBounds
<1>2. IniBounds => Ini!TypeOK
    BY DEF IniBounds, UsedBound, RunType, Ini!TypeOK
<1>3. ServicesInit => Inv
    BY <1>1 DEF ServicesInit
<1>4. Inv /\ [ServicesNext]_all => Inv'
    BY IniFrame, BoundStep, ServiceStays
<1>5. Inv => (service = "ini" => Ini!TypeOK)
    BY <1>2
<1> QED BY <1>3, <1>4, <1>5, PTL DEF ServicesSpec

----------------------------------------------------------------------------
(* The lanes of a plan, and the buffers in memory, are within the limit.   *)

VramLanes ==
  /\ device \in [total : Cards, engine : Engines] /\ other \in OtherUse
  /\ buffer.count \in 0..LaneLimit /\ backend.cap \in 1..LaneLimit
  /\ backend.on => /\ backend.base.lanes <= LaneLimit
                   /\ backend.plan.lanes <= backend.base.lanes

LEMMA LanesInMemory ==
  ASSUME NEW m \in BackendType, m.plan \in PlanType, m.plan.lanes <= LaneLimit,
         NEW n, n \in 0..LaneLimit
  PROVE  /\ Vram!Together(m) \in 1..LaneLimit
         /\ Vram!Smaller(n, IF device.engine = "native" THEN m.plan.lanes
                            ELSE Vram!Together(m)) \in 0..LaneLimit
<1>1. LaneLimit \in Nat \ {0} /\ m.plan.lanes \in 1..LaneLimit
    BY VramAssumption, PlanFields
<1>2. Vram!Together(m) \in 1..LaneLimit
    BY <1>1 DEF Vram!Together
<1> DEFINE k == IF device.engine = "native" THEN m.plan.lanes ELSE Vram!Together(m)
<1>3. k \in 1..LaneLimit
    BY <1>1, <1>2
<1> HIDE DEF k
<1>4. Vram!Smaller(n, k) \in 0..LaneLimit
    BY <1>1, <1>3 DEF Vram!Smaller
<1> QED BY <1>2, <1>4 DEF k

(* A plan is put in use by _apply_plan() and _reapply_live_caps().         *)
LEMMA LanesInUse ==
  ASSUME VramInv, VramLanes, device' = device, other' = other, NEW m \in BackendType,
         m.on, m.cap = backend.cap, NEW base, FitPlan(base), base.lanes <= LaneLimit,
         NEW mode, NEW eased, eased = Vram!Effective(m, base),
         backend' \in BackendType, backend' = [m EXCEPT !.base = base, !.plan = eased, !.mode = mode],
         buffer' = [buffer EXCEPT !.count =
                      Vram!Smaller(@, IF device.engine = "native" THEN eased.lanes
                                      ELSE Vram!Together(backend'))]
  PROVE  VramLanes'
<1>1. device.total \in Nat /\ buffer \in BufferType /\ LaneLimit \in Nat
    BY VramAssumption DEF VramInv
<1>2. FitPlan(eased) /\ eased.lanes <= base.lanes
    BY <1>1, BackendFields, EffectiveFits
<1>3. eased \in PlanType /\ eased.lanes \in Nat /\ base.lanes \in Nat
    BY <1>2, PlanFields DEF FitPlan
<1>4. backend'.base = base /\ backend'.plan = eased /\ backend'.cap = backend.cap
    BY DEF BackendType
<1>5. Vram!Smaller(buffer.count, IF device.engine = "native" THEN eased.lanes
                                 ELSE Vram!Together(backend')) \in 0..LaneLimit
  <2>1. eased.lanes <= LaneLimit /\ buffer.count \in 0..LaneLimit
      BY <1>1, <1>2, <1>3 DEF VramLanes
  <2> DEFINE after == backend'
  <2>2. after \in BackendType /\ after.plan = eased
      BY <1>4
  <2> HIDE DEF after
  <2>3. Vram!Smaller(buffer.count, IF device.engine = "native" THEN after.plan.lanes
                                   ELSE Vram!Together(after)) \in 0..LaneLimit
      BY <1>3, <2>1, <2>2, LanesInMemory
  <2> QED BY <2>2, <2>3 DEF after
<1>6. buffer'.count \in 0..LaneLimit
    BY <1>1, <1>5 DEF BufferType
<1> QED BY <1>2, <1>4, <1>6 DEF VramLanes

LEMMA LanesReapplied ==
  ASSUME VramInv, VramLanes, VramInv', NEW m \in BackendType, NEW loads, Vram!Reapply(m, loads),
         m.on, backend.on, m.base = backend.base, m.cap = backend.cap,
         device' = device, other' = other
  PROVE  VramLanes'
<1> DEFINE base == m.base
           eased == Vram!Effective(m, base)
           mode == IF eased.lanes = m.plan.lanes THEN m.mode ELSE Vram!Mode(eased.lanes, loads)
<1>1. /\ backend' = [m EXCEPT !.plan = eased, !.mode = mode]
      /\ buffer' = [buffer EXCEPT !.count =
                      Vram!Smaller(@, IF device.engine = "native" THEN backend'.plan.lanes
                                      ELSE Vram!Together(backend'))]
    BY DEF Vram!Reapply, Vram!Shed
<1> HIDE DEF mode
<1>2. FitPlan(base) /\ base.lanes <= LaneLimit /\ backend' \in BackendType
    BY DEF VramInv, InUse, VramLanes
<1>3. backend' = [m EXCEPT !.base = base, !.plan = eased, !.mode = mode]
  <2> HIDE DEF eased
  <2> QED BY <1>1 DEF BackendType
<1>4. backend'.plan = eased
  <2> HIDE DEF eased
  <2> QED BY <1>1 DEF BackendType
<1>5. eased = Vram!Effective(m, base)
    BY DEF eased
<1> HIDE DEF base, eased
<1>6. buffer' = [buffer EXCEPT !.count =
                  Vram!Smaller(@, IF device.engine = "native" THEN eased.lanes
                                  ELSE Vram!Together(backend'))]
    BY <1>1, <1>4
<1> QED BY <1>2, <1>3, <1>5, <1>6, LanesInUse

LEMMA LanesStart ==
  ASSUME VramInv, VramLanes, VramInv', NEW loads, Vram!Start(loads)
  PROVE  VramLanes'
<1> DEFINE taken == other + Context
           m == [backend EXCEPT !.on = TRUE, !.baseline = taken]
           base == Vram!PlanFromDevice(m, taken)
           eased == Vram!Effective(m, base)
           mode == Vram!Mode(eased.lanes, loads)
<1>1. /\ Vram!Sized(base) /\ device' = device /\ other' = other
      /\ backend' = [m EXCEPT !.base = base, !.plan = eased, !.mode = mode]
      /\ buffer' = [buffer EXCEPT !.count =
                      Vram!Smaller(@, IF device.engine = "native" THEN backend'.plan.lanes
                                      ELSE Vram!Together(backend'))]
    BY DEF Vram!Start, Vram!Adopt, Vram!Shed
<1>2. taken \in Nat
    BY VramAssumption DEF VramInv
<1> HIDE DEF taken
<1>3. m \in BackendType /\ m.on /\ m.cap = backend.cap
    BY <1>2 DEF VramInv, BackendType
<1> HIDE DEF m, mode
<1>4. FitPlan(base) /\ base.lanes <= LaneLimit
  <2>1. device.total \in Nat /\ m.cap \in 1..LaneLimit /\ LaneLimit \in Nat
      BY <1>3, VramAssumption DEF VramInv, VramLanes
  <2>2. FitPlan(base) /\ (m.cap >= 1 => base.lanes <= m.cap)
      BY <1>1, <1>2, <1>3, <2>1, SizedFits
  <2>3. base.lanes \in Nat
      BY <2>2, PlanFields DEF FitPlan
  <2> QED BY <2>1, <2>2, <2>3
<1> HIDE DEF base
<1>5. eased = Vram!Effective(m, base)
    BY DEF eased
<1> HIDE DEF eased
<1>6. backend' \in BackendType /\ backend'.plan = eased
    BY <1>1, <1>3 DEF VramInv, BackendType
<1> QED BY <1>1, <1>3, <1>4, <1>5, <1>6, LanesInUse

LEMMA LanesRetargeted ==
  ASSUME VramInv, VramLanes, VramInv', NEW d \in Retargets, NEW loads,
         Vram!SetDifficulty(d, loads)
  PROVE  VramLanes'
<1> DEFINE m == [backend EXCEPT !.diff = d]
           taken == Vram!UsedMib
           base == Vram!PlanFromDevice(m, taken)
           eased == Vram!Effective(m, base)
           mode == Vram!Mode(eased.lanes, loads)
<1>1. device' = device /\ other' = other
    BY DEF Vram!SetDifficulty
<1>2. /\ m \in BackendType /\ m.on = backend.on /\ m.cap = backend.cap
      /\ m.base = backend.base /\ m.plan = backend.plan
    BY VramAssumption DEF VramInv, BackendType
<1>3. CASE backend.on /\ Vram!Sized(base)
  <2>1. /\ backend' = [m EXCEPT !.base = base, !.plan = eased, !.mode = mode]
        /\ buffer' = [buffer EXCEPT !.count =
                        Vram!Smaller(@, IF device.engine = "native" THEN backend'.plan.lanes
                                        ELSE Vram!Together(backend'))]
      BY <1>3 DEF Vram!SetDifficulty, Vram!Adopt, Vram!Shed
  <2>2. taken \in Int
      BY UsedInt
  <2> HIDE DEF m, taken, mode
  <2>3. FitPlan(base) /\ base.lanes <= LaneLimit
    <3>1. device.total \in Nat /\ m.cap \in 1..LaneLimit /\ LaneLimit \in Nat
        BY <1>2, VramAssumption DEF VramInv, VramLanes
    <3>2. FitPlan(base) /\ (m.cap >= 1 => base.lanes <= m.cap)
        BY <1>2, <1>3, <2>2, <3>1, SizedFits
    <3>3. base.lanes \in Nat
        BY <3>2, PlanFields DEF FitPlan
    <3> QED BY <3>1, <3>2, <3>3
  <2> HIDE DEF base
  <2>4. eased = Vram!Effective(m, base)
      BY DEF eased
  <2> HIDE DEF eased
  <2>5. backend' \in BackendType /\ backend'.plan = eased
      BY <1>2, <2>1 DEF VramInv, BackendType
  <2> QED BY <1>1, <1>2, <1>3, <2>1, <2>3, <2>4, <2>5, LanesInUse
<1>4. CASE ~(backend.on /\ Vram!Sized(base))
  <2>1. backend' = m /\ buffer' = buffer
      BY <1>4 DEF Vram!SetDifficulty
  <2> HIDE DEF m
  <2> QED BY <1>1, <1>2, <2>1 DEF VramLanes
<1> QED BY <1>3, <1>4

LEMMA LanesInit == Vram!Init => VramLanes
<1> SUFFICES ASSUME Vram!Init PROVE VramLanes
    OBVIOUS
<1>1. other \in OtherUse
  <2>1. OtherUse \in SUBSET Nat /\ OtherUse # {} /\ other = Vram!Min(OtherUse)
      BY VramAssumption DEF Vram!Init
  <2>2. \E x \in OtherUse : \A y \in OtherUse : x <= y
      BY <2>1, LeastNat
  <2> QED BY <2>1, <2>2 DEF Vram!Min
<1>2. LaneLimit \in Nat \ {0}
    BY VramAssumption
<1> QED BY <1>1, <1>2 DEF Vram!Init, VramLanes

LEMMA LanesStep == VramInv /\ VramLanes /\ VramInv' /\ [Vram!Next]_Vram!vars => VramLanes'
<1> SUFFICES ASSUME VramInv, VramLanes, VramInv', [Vram!Next]_Vram!vars PROVE VramLanes'
    OBVIOUS
<1>1. CASE UNCHANGED Vram!vars
    BY <1>1 DEF Vram!vars, VramLanes
<1>2. CASE Vram!Stop
  <2>1. backend'.cap = backend.cap /\ ~backend'.on
      BY <1>2 DEF Vram!Stop, VramInv, BackendType
  <2>2. device' = device /\ other' = other /\ buffer'.count = 0
      BY <1>2 DEF Vram!Stop
  <2> QED BY <2>1, <2>2, VramAssumption DEF VramLanes
<1>3. CASE Vram!MineBatch
  <2>1. /\ backend.on /\ device' = device /\ other' = other /\ backend' = backend
        /\ buffer'.count = Vram!Together(backend)
      BY <1>3 DEF Vram!MineBatch
  <2>2. /\ backend \in BackendType /\ backend.plan \in PlanType
        /\ backend.base \in PlanType /\ LaneLimit \in Nat
      BY <2>1, VramAssumption DEF VramInv, InUse, FitPlan
  <2>3. backend.plan.lanes <= LaneLimit
    <3>1. backend.plan.lanes \in Nat /\ backend.base.lanes \in Nat
        BY <2>2, PlanFields
    <3> QED BY <2>1, <2>2, <3>1 DEF VramLanes
  <2>4. Vram!Together(backend) \in 1..LaneLimit
    <3>1. LaneLimit \in 0..LaneLimit
        BY <2>2
    <3> QED BY <2>2, <2>3, <3>1, LanesInMemory
  <2> QED BY <2>1, <2>2, <2>4 DEF VramLanes
<1>4. CASE Vram!ReduceLaneCap \/ Vram!RestoreLaneCap
  <2>1. PICK c \in 1..LaneLimit : backend' = [backend EXCEPT !.cap = c]
    <3>1. LaneLimit \in Nat \ {0} /\ backend.cap \in 1..LaneLimit
        BY VramAssumption DEF VramLanes
    <3> QED BY <1>4, <3>1 DEF Vram!ReduceLaneCap, Vram!RestoreLaneCap
  <2>2. /\ backend'.cap = c /\ backend'.on = backend.on /\ backend'.base = backend.base
        /\ backend'.plan = backend.plan
      BY <2>1 DEF VramInv, BackendType
  <2>3. device' = device /\ other' = other /\ buffer' = buffer
      BY <1>4 DEF Vram!ReduceLaneCap, Vram!RestoreLaneCap
  <2> QED BY <2>2, <2>3 DEF VramLanes
<1>5. CASE \E mib \in OtherUse : Vram!OthersTake(mib)
    BY <1>5 DEF Vram!OthersTake, VramLanes
<1>6. CASE \E loads \in BOOLEAN, warm \in BOOLEAN : Vram!Warm(warm, loads)
  <2>1. PICK loads \in BOOLEAN, warm \in BOOLEAN : Vram!Warm(warm, loads)
      BY <1>6
  <2> DEFINE biased == Vram!BiasedLanes(backend.base)
             degree == IF warm THEN BatchMinScale ELSE 100
             lanes == IF warm THEN Vram!Smaller(ThermalLaneMin, biased) ELSE biased
             m == [backend EXCEPT !.heat = degree, !.thermal = lanes]
  <2>2. /\ backend.on /\ Vram!Reapply(m, loads) /\ device' = device /\ other' = other
      BY <2>1 DEF Vram!Warm
  <2>3. degree \in Int /\ lanes \in Int
    <3>1. biased \in Int
        BY <2>2, BiasedInt DEF VramInv, InUse
    <3> HIDE DEF biased
    <3> QED BY <3>1, SettingsAssumption DEF Vram!Smaller
  <2> HIDE DEF degree, lanes
  <2>4. m \in BackendType /\ m.on /\ m.base = backend.base /\ m.cap = backend.cap
      BY <2>2, <2>3 DEF VramInv, BackendType
  <2> HIDE DEF m
  <2> QED BY <2>2, <2>4, LanesReapplied
<1>7. CASE \E loads \in BOOLEAN : Vram!ReelIn(loads)
  <2>1. PICK loads \in BOOLEAN : Vram!ReelIn(loads)
      BY <1>7
  <2> DEFINE biased == Vram!BiasedLanes(backend.base)
             strain == Vram!Pressure(VramMinScale, Vram!UsedMib)
             lanes == IF biased > 1 THEN Vram!PressureCap(biased, Vram!UsedMib) ELSE Vram!None
             m == [backend EXCEPT !.pressure = strain, !.vram = lanes]
  <2>2. /\ backend.on /\ Vram!Reapply(m, loads) /\ device' = device /\ other' = other
      BY <2>1 DEF Vram!ReelIn
  <2>3. strain \in Int /\ lanes \in Int
    <3>1. device.total \in Nat /\ Vram!UsedMib \in Int /\ VramMinScale \in Int
        BY UsedInt, VramAssumption DEF VramInv
    <3>2. biased \in Int
        BY <2>2, BiasedInt DEF VramInv, InUse
    <3> HIDE DEF biased
    <3>3. strain \in Int
        BY <3>1, PressureInt
    <3>4. Vram!PressureCap(biased, Vram!UsedMib) \in Int
        BY <3>1, <3>2, PressureCapInt
    <3> QED BY <3>3, <3>4 DEF Vram!None
  <2> HIDE DEF strain, lanes
  <2>4. m \in BackendType /\ m.on /\ m.base = backend.base /\ m.cap = backend.cap
      BY <2>2, <2>3 DEF VramInv, BackendType
  <2> HIDE DEF m
  <2> QED BY <2>2, <2>4, LanesReapplied
<1>8. CASE \E loads \in BOOLEAN : \/ Vram!Start(loads)
                                  \/ \E d \in Retargets : Vram!SetDifficulty(d, loads)
    BY <1>8, LanesStart, LanesRetargeted
<1> QED BY <1>1, <1>2, <1>3, <1>4, <1>5, <1>6, <1>7, <1>8 DEF Vram!Next

LEMMA VramTyped == ServicesSpec => [](service = "vram" => Vram!TypeOK)
<1> DEFINE Inv == service = "vram" => VramInv /\ VramLanes
<1>1. ServicesInit => Inv
    BY VramInit, LanesInit DEF ServicesInit
<1>2. Inv /\ [ServicesNext]_all => Inv'
    BY VramFrame, VramStep, LanesStep, ServiceStays
<1>3. Inv => (service = "vram" => Vram!TypeOK)
  <2>1. ASSUME VramInv, VramLanes PROVE Vram!TypeOK
    <3>1. backend \in BackendType /\ device \in [total : Cards, engine : Engines]
        BY <2>1 DEF VramInv, VramLanes
    <3>2. backend.mode \in {"sequential", "native", "dll-copies"}
        BY <3>1, BackendFields
    <3>3. backend.on => backend.plan.lanes \in 1..backend.base.lanes
      <4>1. ASSUME backend.on
            PROVE  backend.plan.lanes \in Nat \ {0} /\ backend.base.lanes \in Nat \ {0}
          BY <2>1, <4>1, PlanFields DEF VramInv, InUse, FitPlan
      <4> QED BY <2>1, <4>1 DEF VramLanes
    <3>4. device.total \in Cards /\ device.engine \in Engines
        BY <3>1
    <3> QED BY <2>1, <3>2, <3>3, <3>4 DEF VramLanes, Vram!TypeOK
  <2> QED BY <2>1
<1> QED BY <1>1, <1>2, <1>3, PTL DEF ServicesSpec

----------------------------------------------------------------------------
(* The type invariant of every service where it runs.  Not all of it is    *)
(* types: the CPU backend's queue never holds more hits than it may have   *)
(* workers, no more is counted of days than was accepted, the outages      *)
(* listed are no more than are kept, what is remembered of a wallet is no  *)
(* more than has happened, what miner.ini saved and sessions used was made *)
(* up before, and no plan has more lanes, and no engine more buffers, than *)
(* cuda_max_lanes.                                                         *)
THEOREM ServicesTyped == ServicesSpec => []ServicesTypeOK
<1>1. ServicesSpec => []TypeOK
    BY LockTyped
<1>2. /\ ServicesSpec => [](service = "heat" => Heat!TypeOK)
      /\ ServicesSpec => [](service = "cpu" => Cpu!TypeOK)
      /\ ServicesSpec => [](service = "power" => Power!TypeOK)
      /\ ServicesSpec => [](service = "uptime" => Uptime!TypeOK)
      /\ ServicesSpec => [](service = "ini" => Ini!TypeOK)
    BY HeatTyped, CpuTyped, PowerTyped, UptimeTyped, IniTyped
<1>3. /\ ServicesSpec => [](service = "reporting" => Report!TypeOK)
      /\ ServicesSpec => [](service = "balances" => Balances!TypeOK)
      /\ ServicesSpec => [](service = "migration" => Upgrade!TypeOK)
      /\ ServicesSpec => [](service = "vram" => Vram!TypeOK)
      /\ ServicesSpec => [](service = "snapshots" => Snaps!TypeOK)
    BY ReportTyped, BalancesTyped, UpgradeTyped, VramTyped, SnapsTyped
<1> QED BY <1>1, <1>2, <1>3, PTL DEF ServicesTypeOK
=============================================================================
