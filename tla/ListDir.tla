-------------------------------- MODULE ListDir -------------------------------
(***************************************************************************)
(* Listing a directory page by page: wifi_client_list_dir on the ESP32,    *)
(* handle_list_dir and its cursor on the STM32.                            *)
(*                                                                         *)
(* A request carries the directory and the index of the first entry        *)
(* wanted, one byte: it counts modulo Wrap.  The STM32 keeps the directory *)
(* open between pages and tells the next page, and a repetition of the     *)
(* last one, by that byte; anything else opens the directory anew and      *)
(* skips that many entries.                                                *)
(*                                                                         *)
(* The entries of directory d are <<d, 1>>, <<d, 2>>, ...; every page but  *)
(* the last holds PageRoom of them.                                        *)
(***************************************************************************)
EXTENDS UartLink, Integers

CONSTANTS
  Size,       \* the directories of the card, and how many entries each has
  Asked,      \* names a listing may be asked for
  PageRoom,   \* entries that fit in a frame
  Wrap,       \* 256
  MaxLists    \* listings (bounds the model, not the code)

ASSUME ListBounds ==
  /\ PageRoom \in Nat \ {0} /\ Wrap \in Nat \ {0} /\ MaxLists \in Nat
  /\ \A d \in DOMAIN Size : Size[d] \in Nat

VARIABLES
  cursor,     \* ls_dir, ls_path, ls_next, ls_last, ls_last_pos
  fresh,      \* less than LIST_CURSOR_MS since the last page
  list,       \* the listing the ESP32 is making
  lists,      \* listings begun
  result,     \* what came of the last one
  misread,    \* in it, an answer was taken for another
  ran, page   \* the request the STM32 ran last, and the page it gave

srvVars   == <<cursor, fresh>>
cliVars   == <<list, lists, result>>
ghostVars == <<misread, ran, page>>
vars == <<linkVars, srvVars, cliVars, ghostVars>>

NoList == [dir |-> "none"]
NoCursor == [open |-> FALSE, path |-> "none", pos |-> 0, next |-> 0, last |-> 0, lastPos |-> 0]
Entries(d, a, b) == [i \in 1..(b - a) |-> <<d, a + i>>]
Least(a, b) == IF a <= b THEN a ELSE b

Init ==
  /\ LinkInit
  /\ cursor = NoCursor /\ fresh = FALSE
  /\ list = NoList /\ lists = 0 /\ result = NoList
  /\ misread = FALSE /\ ran = NoRequest /\ page = <<>>

-----------------------------------------------------------------------------
(* ESP32.                                                                  *)

BeginList ==
  /\ list = NoList /\ lists < MaxLists
  /\ \E d \in Asked : list' = [dir |-> d, start |-> 0, got |-> <<>>]
  /\ lists' = lists + 1
  /\ result' = NoList /\ misread' = FALSE
  /\ UNCHANGED <<linkVars, srvVars, ran, page>>

\* n, the number of the listing, is for the properties alone.
AskPage ==
  /\ list # NoList
  /\ Request([cmd |-> "LIST_DIR", path |-> list.dir, start |-> list.start, n |-> lists])
  /\ UNCHANGED <<srvVars, cliVars, ghostVars>>

\* The byte the next request carries: counted up by one for each entry.
NextStart(count) == (list.start + count) % Wrap

\* (What a listing shows after it took an answer for another is not kept, so
\* that the model stays finite: such a listing may go round for ever.)
GotPage ==
  /\ ReadAnswer
  /\ LET ans == Head(resps)
         got == IF misread' THEN <<>> ELSE list.got \o ans.entries
     IN /\ ans.status = "OK"
        /\ misread' = (misread \/ ans.of # request)
        /\ IF ans.more
           THEN /\ list' = [list EXCEPT !.got = got, !.start = NextStart(Len(ans.entries))]
                /\ UNCHANGED result
           ELSE list' = NoList /\ result' = [dir |-> list.dir, ok |-> TRUE, got |-> got]
  /\ UNCHANGED <<srvVars, lists, ran, page>>

ListFails ==
  /\ \/ ReadAnswer /\ Head(resps).status # "OK"
     \/ ReturnFailure
  /\ list' = NoList
  /\ result' = [dir |-> list.dir, ok |-> FALSE, got |-> list.got]
  /\ UNCHANGED <<srvVars, lists, ghostVars>>

-----------------------------------------------------------------------------
(* STM32.                                                                  *)

Same(req) == cursor.open /\ fresh /\ cursor.path = req.path

\* Where in the directory the page asked for begins.
MRetryNotRewound(req) ==
  IF Same(req) /\ req.start \in {cursor.next, cursor.last} THEN cursor.pos
  ELSE Least(req.start, Size[req.path])
MNoSkip(req) ==
  IF Same(req) /\ req.start = cursor.next THEN cursor.pos
  ELSE IF Same(req) /\ req.start = cursor.last THEN cursor.lastPos
  ELSE 0
PageStart(req) ==
  IF Same(req) /\ req.start = cursor.next THEN cursor.pos
  ELSE IF Same(req) /\ req.start = cursor.last THEN cursor.lastPos
  ELSE Least(req.start, Size[req.path])

ServePage ==
  /\ Take("LIST_DIR")
  /\ LET req   == Head(reqs)
         from  == PageStart(req)
         to    == Least(from + PageRoom, Size[req.path])
         more  == to < Size[req.path]
     IN /\ req.path \in DOMAIN Size
        \* the cursor is closed after the last page
        /\ cursor' = [open |-> more, path |-> req.path, pos |-> to,
                      next |-> (req.start + (to - from)) % Wrap,
                      last |-> req.start, lastPos |-> from]
        /\ page' = Entries(req.path, from, to)
        /\ Answer([cmd |-> "LIST_DIR", of |-> req, status |-> "OK",
                   entries |-> page', more |-> more])
        /\ ran' = req
  /\ fresh' = TRUE
  /\ UNCHANGED <<cliVars, misread>>

NoSuchDir ==
  /\ Take("LIST_DIR")
  /\ LET req == Head(reqs) IN
     /\ req.path \notin DOMAIN Size
     /\ Answer([cmd |-> "LIST_DIR", of |-> req, status |-> "NOT_FOUND"])
     /\ ran' = req
  /\ cursor' = [cursor EXCEPT !.open = FALSE]
  /\ page' = <<>>
  /\ UNCHANGED <<fresh, cliVars, misread>>

\* LIST_CURSOR_MS go by: the STM32 was busy with the Z80, or the browser slow.
Expire ==
  /\ fresh /\ fresh' = FALSE
  /\ UNCHANGED <<linkVars, cursor, cliVars, ghostVars>>

StmGarbled == TakeGarbled /\ UNCHANGED <<srvVars, cliVars, ghostVars>>

LinkStep ==
  /\ TransmitOk \/ TransmitBad \/ ReadTimeout \/ ReadFrameError \/ ReadStale
  /\ UNCHANGED <<srvVars, cliVars, ghostVars>>

\* Every listing of this instance is done (the bound MaxLists, not the code).
Finished == list = NoList /\ lists = MaxLists /\ UNCHANGED vars

Next ==
  \/ BeginList \/ AskPage \/ GotPage \/ ListFails
  \/ ServePage \/ NoSuchDir \/ Expire \/ StmGarbled \/ LinkStep \/ Finished

Spec == Init /\ [][Next]_vars

-----------------------------------------------------------------------------
\* A listing that succeeds shows every entry of the directory once and in
\* order, through retries, expired cursors and listings given up halfway, as
\* long as no answer is taken for another and the directory has no more than
\* Wrap entries.
ListingExact ==
  result # NoList /\ result.ok /\ ~misread /\ Size[result.dir] <= Wrap =>
    result.got = Entries(result.dir, 0, Size[result.dir])

\* A request repeated by the ESP32 gets the page it got before, as the comment
\* above handle_list_dir says.
RetrySamePage ==
  [][reqs # <<>> /\ reqs' = Tail(reqs) /\ Head(reqs) = ran => page' = page]_vars
=============================================================================
