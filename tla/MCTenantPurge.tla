--------------------------- MODULE MCTenantPurge ---------------------------
(* TLC instances of TenantPurge: a few of the tables, with the foreign     *)
(* keys schema.prisma gives them.                                          *)
EXTENDS TenantPurge, TLC

CONSTANTS t1, o1, o2

MCObjectTenant == o1 :> t1 @@ o2 :> t1
MCTable == {"visits", "locations", "route_template_items", "users"}
MCOrder == <<"visits", "locations", "storage_objects", "sessions", "users">>
MCRestrict == {<<"visits", "locations">>, <<"visits", "users">>,
               <<"route_template_items", "locations">>}
MCCascade == {<<"route_template_items", "users">>}
MCMayBlock == {"route_template_items"}
=============================================================================
