---------------------------- MODULE MCHttpServer ----------------------------
(* Small instances of the gateway. *)
EXTENDS HttpServer, TLC

Doc(kind, selections, blocks) == [kind |-> kind, selections |-> selections, blocks |-> blocks]

\* One document for each way ParseRequest and on_read can end, and a query
\* that selects the field twice.
AllDocuments ==
    {Doc("bad_http", <<>>, 1), Doc("bad_body", <<>>, 1), Doc("no_operation", <<>>, 1),
     Doc("operation", <<"field", "field">>, 2), Doc("operation", <<"field", "fragment">>, 1),
     Doc("operation", <<"other", "field">>, 1)}

\* Queries that are well formed.
Queries == {Doc("operation", <<"field">>, 1), Doc("operation", <<"field", "field">>, 2)}

TheQuery == {Doc("operation", <<"field">>, 1)}

Symmetry == Permutations(Connections)

=============================================================================
