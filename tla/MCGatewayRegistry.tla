-------------------------- MODULE MCGatewayRegistry --------------------------
(* An instance of GatewayRegistry for TLC: two services, one of which may  *)
(* claim the other's prefix, or one that the gateway's config has.          *)
EXTENDS GatewayRegistry, TLC
CONSTANTS a, b, p, q, r, c1, c2
MCNameOf == a :> "shop" @@ b :> "orders"
MCPlansOf == a :> {{p}, {p, q}} @@ b :> {{q}, {q, r}}
=============================================================================
