----------------------------- MODULE IssueComments -----------------------------
(***************************************************************************)
(* The comments of one Issue, all the phases share besides the journal.    *)
(* A POST lands once, at any time after it was sent, or never; comments    *)
(* are neither edited nor removed.  Reading them all twice and refusing a  *)
(* difference, as the code does, is therefore one atomic read.  Comments   *)
(* of anybody but the two Apps are skipped by the code and left out.       *)
(* A comment is a record with a kind; its number is its place in posts.    *)
(***************************************************************************)
EXTENDS Naturals, Sequences

CONSTANT MaxPosts  \* bound: comments sent

ASSUME PostsAssumption == MaxPosts \in Nat

VARIABLES
  posts,  \* the comments sent, in order
  landed  \* those GitHub has stored

commentVars == <<posts, landed>>

CommentsInit == posts = << >> /\ landed = {}

SendComment(comment) ==
  /\ Len(posts) < MaxPosts
  /\ posts' = Append(posts, comment)
  /\ UNCHANGED landed

LandComment(p) ==
  /\ p \notin landed
  /\ landed' = landed \cup {p}
  /\ UNCHANGED posts

Receipts == {p \in landed : posts[p].kind = "receipt"}

(* Publisher comments carry the execution they belong to.                   *)
PublisherComments(kind, execution) ==
  {p \in landed : posts[p].kind = kind /\ posts[p].execution = execution}
=============================================================================
