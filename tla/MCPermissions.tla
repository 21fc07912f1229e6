--------------------------- MODULE MCPermissions ---------------------------
(***************************************************************************)
(* Two resources of the database, apps with a parent and devices of an app *)
(* and of a former one, and an older version in which an app is called an  *)
(* application and a device is read with its app; a user, a key and the    *)
(* guest; and two requests.                                                *)
(***************************************************************************)
EXTENDS Permissions, TLC

CONSTANTS u, k, g, nobody, r1, r2, reader

MCRows == [app |-> {"a1", "a2", "a3"}, device |-> {"d1", "d2", "d3"}]
MCPlain == [mine |-> {"a1", "d2"}]
MCLinks ==
  [parent |-> [on |-> "app", to |-> "app", depth |-> 1,
               refs |-> {<<"a2", "a1">>, <<"a3", "a2">>}],
   owner |-> [on |-> "device", to |-> "app", depth |-> Unlimited,
              refs |-> {<<"d1", "a1">>, <<"d2", "a2">>, <<"d3", "a3">>}],
   former |-> [on |-> "device", to |-> "app", depth |-> Unlimited,
               refs |-> {<<"d1", "a2">>, <<"d2", "a3">>, <<"d3", "a1">>}],
   host |-> [on |-> "app", to |-> "device", depth |-> Unlimited,
             refs |-> {<<"a1", "d1">>, <<"a2", "d1">>, <<"a3", "d2">>}]]

May(scope, action, cond) == [scope |-> scope, action |-> action, cond |-> cond]
MCCompound ==
  [either |-> Or({Condition("mine"), Condition("owner")}),
   both |-> And({Condition("mine"), Condition("owner")})]
MCRootRead == {May("resource", "read", "always")}
MCForApp == {May("app", "read", "mine"), May("app", "read", "parent")}
MCForDevice == {May("device", "read", "owner"), May("device", "read", "either"),
                May("device", "read", "both")}
MCToWrite == {May("resource", "update", "mine"), May("resource", "create", "always")}
MCForKey == { May("device", "all", "owner") }
MCForGuest == { May("vocabulary", "read", "mine") }
MCPermissions == MCForApp \cup MCForDevice \cup MCToWrite \cup MCForKey \cup MCForGuest \cup MCRootRead
MCRoles == reader :> {May("app", "read", "parent"), May("device", "read", "owner")}
MCHoldings ==
  (u :> {A \cup D \cup W : A \in SUBSET MCForApp, W \in {{}, MCToWrite},
                         D \in {{}} \cup {{p} : p \in MCForDevice}})
  @@ (k :> {{reader} \cup MCForKey}) @@ (g :> {{}, MCForGuest})

MCNamed == <<{"application", "device"}, {"app", "device"}>>
MCTranslated == <<{"application", "device"}, {}>>
MCToResource == <<[application |-> "app", device |-> "device"], <<>>>>
MCInner == <<[application |-> {}, device |-> {"app"}], <<>>>>

Method(m, name, version) ==
  [kind |-> "method", check |-> MethodCheck(m), name |-> name, version |-> version]
MCAsks ==
  (r1 :> { Method("GET", "app", 2), Method("PUT", "application", 1), Method("PATCH", "device", 1),
           [Method("GET", "device", 2) EXCEPT !.kind = "canAccess"],
           [kind |-> "expand", by |-> "owner"], [kind |-> "expand", by |-> "former"],
           [kind |-> "expand", by |-> "host"],
           [kind |-> "middleware", check |-> MethodCheck("PUT")] })
  @@ (r2 :> { Method("GET", "device", 2) })
MCCallers ==
  (r1 :> { [user |-> u, key |-> nobody, root |-> FALSE] })
  @@ (r2 :> { [user |-> nobody, key |-> k, root |-> FALSE], Internal })
=============================================================================
