--------------------------- MODULE MCDocumentPurge ---------------------------
(* A small schema: articles have an author, authors list their articles, and *)
(* articles embed users; articles and users are cached, users are a plugin's. *)
EXTENDS DocumentPurge

CONSTANTS article, user, author

SchemaTypes == {article, user, author}
SchemaShown ==
    [t \in SchemaTypes |-> IF t = article THEN {author} ELSE {article, author}]
SchemaRelated == [t \in SchemaTypes |-> {t} \union SchemaShown[t]]

=============================================================================
