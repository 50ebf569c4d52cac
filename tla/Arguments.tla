------------------------------ MODULE Arguments ------------------------------
(***************************************************************************)
(* The command line (cmd/et/flags.go): where a [user@]host[:port] is cut,  *)
(* and how it combines with -u and -p.                                     *)
(*                                                                         *)
(* "0" and "1" are the digits and "a" is any other character.  A port is   *)
(* its number, and 0 where none is given.                                  *)
(***************************************************************************)
EXTENDS Integers, Sequences, SequencesExt, FiniteSetsExt, Slices

CONSTANT MaxPort   \* 65535

ASSUME ArgumentsAssumption == MaxPort \in Nat

Digits == {"0", "1"}
Characters == {"@", ":", "[", "]", "-", "+", "/", "a"} \cup Digits

At(s, c) == {i \in DOMAIN s : s[i] = c}
HasPrefix(s, c) == s # <<>> /\ s[1] = c
IsURI(s) == \E i \in At(s, ":") : i + 2 <= Len(s) /\ s[i + 1] = "/" /\ s[i + 2] = "/"
InRange(port) == port \in 1 .. MaxPort

(* The number that digits stand for, leading zeros or not. *)
Number(digits) == Loop(LAMBDA n, c : 10 * n + (IF c = "1" THEN 1 ELSE 0), 0, digits)

(* strconv.Atoi: a sign, if any, and digits; 0, with an error, for the rest. *)
Atoi(text) ==
  LET signed == HasPrefix(text, "+") \/ HasPrefix(text, "-")
      digits == IF signed THEN From(text, 2) ELSE text
      number == Number(digits)
  IN  IF digits = <<>> \/ ~(ToSet(digits) \subseteq Digits) THEN 0
      ELSE IF HasPrefix(text, "-") THEN -number ELSE number

UsageError == [ok |-> FALSE]
Found(u, h, p) == [ok |-> TRUE, User |-> u, Host |-> h, Port |-> p]

(* The text after the user: its host, what follows it, and if that is wrong *)
Brackets(t) == HasPrefix(t, "[")
HostEnd(t) ==
  CASE Brackets(t) -> Min(At(t, "]") \cup {Len(t) + 1})
    [] ~Brackets(t) /\ Cardinality(At(t, ":")) = 1 -> Min(At(t, ":"))
    [] OTHER -> Len(t) + 1
Host(t) == SubSeq(t, IF Brackets(t) THEN 2 ELSE 1, HostEnd(t) - 1)
AfterHost(t) == From(t, HostEnd(t) + IF Brackets(t) THEN 1 ELSE 0)
BadRest(t) ==
  \/ Brackets(t) /\ At(t, "]") = {}
  \/ AfterHost(t) # <<>> /\ (AfterHost(t)[1] # ":" \/ Len(AfterHost(t)) = 1)

UserEnd(s) == Max(At(s, "@") \cup {0})  \* strings.CutLast

parseDestination(s) ==
  LET user == SubSeq(s, 1, UserEnd(s) - 1)
      t == From(s, UserEnd(s) + 1)
      portText == From(AfterHost(t), 2)
      port == IF portText = <<>> THEN 0 ELSE Atoi(portText)
  IN  IF \/ IsURI(s)
         \/ UserEnd(s) = 1 \/ HasPrefix(user, "-")
         \/ BadRest(t)
         \/ Host(t) = <<>> \/ HasPrefix(Host(t), "-")
         \/ portText # <<>> /\ ~InRange(port)
      THEN UsageError
      ELSE Found(user, Host(t), port)

(* A user given with -u, "" if none, a port, given with -p or not, and -k. *)
defaultPort == 1
Flags ==
  {f \in [user : {<<>>, <<"a">>, <<"-">>}, port : {defaultPort, 0, MaxPort, MaxPort + 1},
          portSet : BOOLEAN, keepAlive : {0, 5}] : f.portSet \/ f.port = defaultPort}

parseArgs(s, f) ==
  LET d == parseDestination(s)
      port == IF d.Port = 0 THEN f.port ELSE d.Port
      user == IF d.User = <<>> THEN f.user ELSE d.User
  IN  IF ~d.ok THEN UsageError
      ELSE IF \/ d.Port # 0 /\ f.portSet /\ d.Port # f.port
              \/ ~InRange(port)
              \/ d.User # <<>> /\ f.user # <<>> /\ d.User # f.user
              \/ HasPrefix(user, "-")
              \/ f.keepAlive \notin 1 .. 5
      THEN UsageError
      ELSE Found(user, d.Host, port)
-----------------------------------------------------------------------------
(* The ways to write the parts of a destination, as the usage text gives   *)
(* them, with any of them but the host left out; a sign goes with a port.  *)
Spellings(u, h, sign, digits) ==
  LET user == IF u = <<>> THEN <<>> ELSE Append(u, "@")
      port == IF digits = <<>> THEN <<>> ELSE <<":">> \o (sign \o digits)
      colons == Cardinality(At(h, ":"))
      plain == IF colons = 0 \/ (colons > 1 /\ port = <<>>) THEN {h} ELSE {}
      bracketed == IF At(h, "]") = {} THEN {<<"[">> \o h \o <<"]">>} ELSE {}
  IN  {user \o x \o port : x \in (IF Brackets(h) THEN {} ELSE plain) \cup bracketed}

(* The destinations that s may mean, from the parts it can be cut into. *)
Meant(s) ==
  LET Cuts == 0 .. Len(s)
      hosts == {h \in {SubSeq(s, i + 1, j) : i, j \in Cuts} :
                  h # <<>> /\ ~HasPrefix(h, "-") /\ At(h, "@") = {}}
      users == {u \in {SubSeq(s, 1, i) : i \in Cuts} : ~HasPrefix(u, "-")}
      numbers == {n \in {From(s, i + 1) : i \in Cuts} :
                    n = <<>> \/ (ToSet(n) \subseteq Digits /\ InRange(Number(n)))}
      parts == {w \in users \X hosts \X {<<>>, <<"+">>} \X numbers :
                  s \in Spellings(w[1], w[2], w[3], w[4])}
  IN  {Found(w[1], w[2], Number(w[4])) : w \in parts}

(***************************************************************************)
(* A destination is accepted exactly if it is a way to write one, and as   *)
(* that one; and no user or port that was given, in either place, is       *)
(* ignored: the command uses it or refuses the line.                       *)
(***************************************************************************)
ArgumentsRule(in) ==
  LET d == parseDestination(in)
  IN  /\ {x \in {d} : x.ok} = IF IsURI(in) THEN {} ELSE Meant(in)
      /\ \A f \in Flags :
           LET o == parseArgs(in, f)
           IN  o.ok => /\ \A v \in {d.User, f.user} \ {<<>>} : o.User = v
                       /\ (d.Port # 0 => o.Port = d.Port) /\ (f.portSet => o.Port = f.port)
                       /\ InRange(o.Port) /\ ~HasPrefix(o.User, "-")
                       /\ f.keepAlive # 0
=============================================================================
