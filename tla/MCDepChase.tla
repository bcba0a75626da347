----------------------------- MODULE MCDepChase -----------------------------
(* Small worlds for DepChase: the operator's resource o refers to others,   *)
(* which may refer to more or back.  a and b are ARNs, u is a bare key id.  *)
EXTENDS DepChase

CONSTANTS o, x, y, z, v, w, a, b, u

Body(t, d) == [top |-> t, deep |-> d]
None == Body({}, {})

(* A world from the bodies of o, x and y, the targets of the literals, and  *)
(* the discovered resources whose identifiers match what leads to them.     *)
NewWorld(bo, bx, by, t, match) ==
  LET body == [r \in Addr |-> CASE r = o -> bo [] r = x -> bx [] r = y -> by
                                  [] OTHER -> None]
  IN [top |-> [r \in Addr |-> body[r].top], deep |-> [r \in Addr |-> body[r].deep],
      own |-> [r \in Operator |-> {}],
      sig |-> [r \in Addr |-> IF r \in match THEN {l \in Lit : t[l] = r} ELSE {}],
      target |-> t]

Targets(ta, tb, tu) ==
  {[l \in Lit |-> CASE l = a -> f [] l = b -> g [] OTHER -> h] :
     f \in ta, g \in tb, h \in tu}

(* Every literal can fail, collide with the operator's resource, or lead to *)
(* what must not be adopted: v is not importable, w is out of scope.        *)
OpenWorlds ==
  {NewWorld(bo, bx, by, t, match) :
     bo \in {Body({a}, {}), Body({a}, {b}), Body({a, b}, {b}), Body({u}, {a}), Body({u, a}, {})},
     bx \in {None, Body({b}, {a}), Body({b}, {u})},
     by \in {None, Body({a, u}, {})},
     t \in Targets({x, o, w, "notFound", "unsupported"},
                   {x, y, v, w, "notSupported", "unparseable"}, {x, z, v, "notFound"}),
     match \in {{}, {x, y}, Addr}}

(* o names the alias a of key x, which x's identifiers do not match, and    *)
(* something b that cannot be chased.                                       *)
AliasWorld ==
  {NewWorld(Body({a, b}, {}), None, None, [l \in Lit |-> IF l = a THEN x ELSE "unsupported"], {})}

(* o refers to x and x refers to y: two rounds, and then nothing is left.   *)
ChainWorld ==
  {NewWorld(Body({a}, {}), Body({b}, {}), None, [l \in Lit |-> IF l = a THEN x ELSE y], Addr)}
=============================================================================
