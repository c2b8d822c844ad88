--------------------------- MODULE MCConfigPipeline ---------------------------
(***************************************************************************)
(* A small instance of ConfigPipeline.  a stands for 10.0.0.1 and b for    *)
(* 10.0.0.12, whose text contains it; AS numbers, area numbers and octets  *)
(* are scaled down.  The drafts vary one part of a configuration at a      *)
(* time, as lists of every order.                                          *)
(***************************************************************************)
EXTENDS ConfigPipeline

MCInside == {<<"a", "a">>, <<"b", "b">>, <<"a", "b">>}

Num(n) == <<"int", n>>
Txt(n) == <<"text", n>>

(* Of texts of one digit.                                                  *)
MCTextBelow == {<<Txt(x[1]), Txt(x[2]), k>> :
                  x \in {x \in (0 .. 9) \X (0 .. 9) : x[1] <= x[2]}, k \in {3, 4}}

N0 == [ip |-> "a", asn |-> Num(2), keep |-> None, hold |-> None, knobs |-> {}]

Nbrs ==
  {[N0 EXCEPT !.ip = x] : x \in {"a", "b", "bad", "loop", "rsvd", "zero"}}
    \cup {[N0 EXCEPT !.asn = x] : x \in {None, Num(0), Num(1), Num(MaxAsn + 1), Txt(2)}}
    \cup {[N0 EXCEPT !.keep = x[1], !.hold = x[2]] :
            x \in {<<Num(1), Num(3)>>, <<Num(1), Num(2)>>, <<Num(2), Num(5)>>,
                   <<Num(1), Num(0)>>, <<Txt(1), Txt(3)>>, <<Txt(2), Txt(5)>>,
                   <<Txt(3), Txt(3)>>, <<Txt(1), Num(3)>>, <<Txt(1), Num(0)>>}}
    \cup {[N0 EXCEPT !.ip = "b", !.knobs = x] :
            x \in {{"shutdown", "description"}, {"password", "next_hop_self"}}}

P(notation) == <<notation, "p">>
Q == <<"cidr", "q">>
Odd == <<"host", "odd">>
BadP == <<"bad", "p">>

Pols == [prefix : {P("cidr"), P("host"), Q}, action : {"permit", "deny"}]
          \cup {[prefix |-> BadP, action |-> "permit"], [prefix |-> None, action |-> "deny"]}

A0 == [id |-> Num(1), type |-> "normal", nets |-> <<P("cidr")>>, ifs |-> {"i"},
       hello |-> None, dead |-> None, auth |-> None]

AreaSet ==
  {[A0 EXCEPT !.id = x] :
     x \in {None, Num(0), Num(1), Txt(1), Num(2), <<"dotted", 1>>, <<"dotted", 2>>,
            <<"word", 0>>, Num(MaxArea + 1), Num(-1)}}
    \cup {[A0 EXCEPT !.type = x, !.hello = Num(1), !.dead = Num(3)] : x \in {"stub", "nssa"}}
    \cup {[A0 EXCEPT !.id = <<"dotted", 1>>, !.type = "stub", !.auth = "md5"],
          [A0 EXCEPT !.nets = <<Q, BadP>>, !.hello = Txt(1), !.dead = Txt(1)],
          [A0 EXCEPT !.nets = <<Odd>>, !.hello = Txt(1), !.dead = Num(4)],
          [A0 EXCEPT !.nets = <<P("mask"), P("cidr")>>]}

UpTo(n, S) == UNION {[1 .. k -> S] : k \in 0 .. n}

B0 == [asn |-> Num(1), rid |-> None, nbrs |-> <<>>, pols |-> <<>>, nets |-> <<>>]
O0 == [pid |-> Num(1), rid |-> None, areas |-> <<>>]

Bgp(bgp) == [bgp |-> bgp, ospf |-> Absent]
Ospf(ospf) == [bgp |-> Absent, ospf |-> ospf]

MCDrafts ==
  {Bgp([B0 EXCEPT !.nbrs = s]) : s \in UpTo(2, Nbrs)}
    \cup {Bgp([B0 EXCEPT !.pols = s]) : s \in UpTo(3, Pols)}
    \cup {Ospf([O0 EXCEPT !.areas = s]) : s \in UpTo(2, AreaSet)}
    \cup {Bgp([B0 EXCEPT !.asn = x, !.nbrs = <<N0>>, !.nets = y]) :
            x \in {None, Num(0), Num(1), Txt(1), Num(MaxAsn + 1)},
            y \in {<<>>, <<P("cidr"), Q>>, <<P("host"), Q>>, <<P("bare")>>, <<BadP>>, <<Odd>>}}
    \cup {[bgp |-> x, ospf |-> y] :
            x \in {Absent, Null} \cup {[B0 EXCEPT !.rid = r] : r \in {"a", "bad", "zero"}},
            y \in {Absent, Null} \cup {[O0 EXCEPT !.rid = r, !.pid = n] :
                                         r \in {None, "a", "b", "bad"}, n \in {None, Num(1), Txt(0)}}}

Site1 == [bgp |-> [B0 EXCEPT !.nbrs = <<[N0 EXCEPT !.knobs = {"description"}]>>, !.nets = <<P("cidr")>>],
          ospf |-> [O0 EXCEPT !.areas = <<[A0 EXCEPT !.type = "stub"]>>]]

Site2 == Bgp([B0 EXCEPT !.nbrs = <<[N0 EXCEPT !.asn = Num(1), !.knobs = {"shutdown"}],
                                   [N0 EXCEPT !.ip = "b"]>>,
                        !.nets = <<P("host")>>])

Site3 == Bgp([B0 EXCEPT !.asn = Num(3), !.rid = "a",
                        !.nbrs = <<[N0 EXCEPT !.knobs = {"password"}], [N0 EXCEPT !.ip = "b"]>>])

NoAsn == Bgp([B0 EXCEPT !.nbrs = <<[N0 EXCEPT !.ip = "b", !.asn = None], N0>>])

Twice == Bgp([B0 EXCEPT !.nbrs = <<N0, [N0 EXCEPT !.asn = Num(1)]>>])

NullSection == [Site1 EXCEPT !.bgp = Null]

MCRequests ==
  [form : {"state"}, config : {Site1, Site2, Site3, NoAsn, Twice, NullSection}]
    \cup {[form |-> "top", config |-> NullSection],
          [form |-> "top", config |-> [bgp |-> Null, ospf |-> Absent]]}
=============================================================================
