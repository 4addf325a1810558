---------------------------- MODULE MCAdminQuery ----------------------------
(* One tab on a cached collection type and single type, and a type that is  *)
(* not cached; the single type's responses hold the collection's entries.   *)
EXTENDS AdminQuery, TLC

MCDocuments ==
    ("d1" :> [id |-> "1", slug |-> "s1", author |-> Object])
    @@ ("d2" :> [id |-> "2", slug |-> "s2", author |-> Object])
MCRelated == ("article" :> {"article", "page", "tag"}) @@ ("page" :> {"page"}) @@ ("tag" :> {"tag"})
MCEntries ==
    {[type |-> "article", param |-> Undefined, value |-> Undefined],
     [type |-> "article", param |-> "id", value |-> "d1"],
     [type |-> "article", param |-> "slug", value |-> "s1"],
     [type |-> "article", param |-> "id", value |-> "d2"],
     [type |-> "page", param |-> "slug", value |-> "s2"]}
At(name, model, documentId) == [name |-> name, model |-> model, documentId |-> documentId]
MCVisited ==
    {At("home", Undefined, Undefined), At("settings", Undefined, Undefined),
     At("list", "article", Undefined), At("list", "tag", Undefined),
     At("edit", "article", "d1"), At("edit", "page", "d1")}
MCPermissions == {{"read-strategy"}, {"purge"}, {"read-strategy", "purge"}}

=============================================================================
