---------------------------- MODULE GraphQlParser ----------------------------
(***************************************************************************)
(* What the GraphQL parsers share, src/program/graphql/graphql_parser_impl.h:*)
(* the calls of the scanner, seen as steps over the tokens of a document,  *)
(* the diagnostics, and the functions that are in progress.                *)
(*                                                                         *)
(* A token is its text.  White space, commas and comments are dropped, as  *)
(* take_next_token drops them, except behind an "@": "@_" is an "@" that   *)
(* white space follows.  Numbers and strings are the tokens "int", "float" *)
(* and "string".  A diagnostic is its message.                             *)
(*                                                                         *)
(* The parsers call one another, so the state has a stack of frames: fn is *)
(* the function, at the place where it goes on and of what it is about.    *)
(***************************************************************************)
EXTENDS Integers, Sequences, SequencesExt, FiniteSets, FiniteSetsExt

CONSTANTS
    Documents,   \* the documents, as sequences of tokens
    Names,       \* the tokens that are names
    Keywords     \* the tokens that are names only where the parser says so

VARIABLES
    document,
    position,  \* tokens that were taken
    diagnostics,
    frames,
    result,    \* what the last function returned
    outcome    \* "running", "done", or "undefined" once a pointer is
               \* followed that points to nothing of its type

parserVars == <<document, position, diagnostics, frames, result, outcome>>

-----------------------------------------------------------------------------
(* Tokens *)

\* take_next_token: what stands behind p tokens, and how many are taken then.
TokenAt(p) == IF p < Len(document) THEN document[p + 1] ELSE "end"
Kind(p) ==
    LET t == TokenAt(p) IN IF t \in Names THEN "name" ELSE IF t = "@_" THEN "@" ELSE t

\* The same with treat_keyword_as_name.
NameKind(p) == IF TokenAt(p) \in Keywords THEN "name" ELSE Kind(p)

After(p) == IF p < Len(document) THEN p + 1 ELSE p

\* scan_optional: try_scan gives back a token that is not the one asked for.
Optional(p, kind) == IF Kind(p) = kind THEN After(p) ELSE p

\* The first place behind p tokens where Stops holds, or the end.
First(p, Stops(_)) ==
    CHOOSE q \in p .. Len(document) :
        (q = Len(document) \/ Stops(q)) /\ \A r \in p .. q - 1 : ~ Stops(r)

\* skip_to stops in front of the first of these tokens.
SkipTo(p, kinds) == First(p, LAMBDA q : Kind(q) \in kinds)

\* skip_block: behind the first brace where as many were closed as opened.
Braces(p, q, brace) == Cardinality({i \in p + 1 .. q : document[i] = brace})
SkipBlock(p) ==
    First(p, LAMBDA q : q > p /\ document[q] = "}" /\ Braces(p, q, "{") <= Braces(p, q, "}"))

\* The message of scan_expected when it finds another token.
NotExpected(p) ==
    IF Kind(p) = "end" THEN "Expected_0_but_instead_reached_the_end_of_document"
    ELSE "Expected_0_but_got_1"

-----------------------------------------------------------------------------
(* Calls *)

Frame(fn, at, of) == [fn |-> fn, at |-> at, of |-> of]
Top == Last(frames)
In(fn, at) == outcome = "running" /\ frames # <<>> /\ Top.fn = fn /\ Top.at = at

\* The function on top goes on at another place, with other variables.
Continued(at, of) == Frame(Top.fn, at, of)
Goto(at, of) == frames' = Append(Front(frames), Continued(at, of)) /\ UNCHANGED result
Call(at, of, callee) ==
    frames' = Append(Append(Front(frames), Continued(at, of)), callee) /\ UNCHANGED result
Return(value) == frames' = Front(frames) /\ result' = value

\* The scanner moves to p and the messages are reported.
Report(p, messages) ==
    /\ position' = p
    /\ diagnostics' = diagnostics \o messages
    /\ UNCHANGED <<document, outcome>>

\* The parser does not go on from here.
Stop(how) ==
    /\ outcome' = how
    /\ UNCHANGED <<document, position, diagnostics, frames, result>>
Undefined == Stop("undefined")

When(condition, message) == IF condition THEN <<message>> ELSE <<>>
Times(n, message) == [i \in 1 .. n |-> message]
=============================================================================
