----------------------------- MODULE MCChannel -----------------------------
(* TLC instances of Channel: the operations each caller may start.          *)
EXTENDS Channel, TLC

CONSTANTS a, b, d, e,        \* channels, in the order of their addresses
          c1, c2, c3, c4, c5,  \* goroutines
          t1, t2, t3         \* threads

InMemory ==
  [x \in Chans |-> CASE x = a -> 1 [] x = b -> 2 [] x = d -> 3 [] OTHER -> 4]

\* a is unbuffered, b has a ring of two slots, d and e have one slot.
OfEachKind == [x \in Chans |-> CASE x = a -> 0 [] x = b -> 2 [] OTHER -> 1]
Buffered1 == [x \in Chans |-> 1]

\* Two programs that share nothing; a behaviour is one of the first or one of
\* the second.
PlainUsers == {c1, c2, t1, t2}
SelectUsers == {c3, c4, c5, t3}
EitherSilent == {PlainUsers, SelectUsers}

\* On a and b, sends and receives of both kinds of callers; c1 may close a, c2 b.
\* On d and e, selects that receive and send, also on the same channel, with
\* their cases in opposite orders, and one that polls.
PlainOrSelect ==
  [c \in Callers |->
     CASE c = c1 -> {Send(a), Recv(a), Send(b), Close(a)}
       [] c = c2 -> {Send(a), Recv(b), Close(b)}
       [] c = t1 -> {Send(a), Recv(a)}
       [] c = t2 -> {Send(a), Send(b)}
       [] c = c3 -> {Select(<<Recv(d), Send(e)>>, FALSE)}
       [] c = c4 -> {Select(<<Recv(e), Send(d)>>, FALSE),
                     Select(<<Send(e), Recv(e)>>, FALSE), Close(e)}
       [] c = c5 -> {Send(d), Recv(d)}
       [] OTHER -> {Select(<<Send(e)>>, FALSE)}]

\* Everybody uses one channel in every way, one also with a default case, and c1
\* closes it.
Closing ==
  [c \in Callers |->
     CASE c = c1 -> {Close(a), Send(a)}
       [] c = c2 -> {Send(a), Recv(a), Select(<<Recv(a)>>, FALSE)}
       [] c = t1 -> {Send(a), Recv(a), Select(<<Send(a)>>, TRUE)}
       [] OTHER -> {Send(a), Recv(a)}]

\* A select and a plain receiver compete for a value.
Competing ==
  [c \in Callers |->
     CASE c = c1 -> {Select(<<Recv(a)>>, FALSE)}
       [] c = c2 -> {Recv(a)}
       [] OTHER -> {Send(a)}]
=============================================================================
