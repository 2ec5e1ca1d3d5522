----------------------------- MODULE ClientFrame ------------------------------
(***************************************************************************)
(* What one frame of a client makes the server do: ParseClientFrame        *)
(* (protocol.cc), ChatWSServlet::handle and the handlers it calls          *)
(* (dispatch/ws_to_mq.cc), as a function of the frame.                     *)
(*                                                                         *)
(* A frame is a record: opcode; json, what the parser makes of the text    *)
(* ("bad", "other" for JSON that is no object, "object"); its members type *)
(* and seq; the kind of its member data, and the members of data that the  *)
(* handlers read.  The surroundings are a record too: whether onConnect    *)
(* has left a user and device in the header, whether the rate limiter lets *)
(* the frame pass, whether the publisher will take an event, and whether   *)
(* the log is kept at level info.                                          *)
(***************************************************************************)
EXTENDS JsonValue

CONSTANT MaxContent   \* chat.max_text_content_bytes

\* What becomes of a frame: the reply sent, whether it carries the seq of the
\* frame, whether the connection "stays" (handle returns 0) or "ends" (1), or handle
\* "throws", whether an entry is left in the pending map, and whether an event has been published.
Effect(reply, echo, ret, pending, published) ==
    [reply |-> reply, echo |-> echo, ret |-> ret, pending |-> pending, published |-> published]

Throws == Effect("none", FALSE, "throws", FALSE, FALSE)
Silent(ret) == Effect("none", FALSE, ret, FALSE, FALSE)

\* BuildFrame puts a seq into the reply only if the request had one.
Reply(reply, f, ret) == Effect(reply, f.seq.kind # "missing", ret, FALSE, FALSE)

-----------------------------------------------------------------------------
\* ParseClientFrame: an error, "throws", or "ok".  A seq between INT64_MAX and
\* UINT64_MAX passes the check of its type and throws when it is converted.
Parsed(f) ==
    CASE f.json = "bad"                               -> "bad json"
      [] f.json = "other"                             -> "frame must be object"
      [] f.json = "object" /\ StringThrows(f.type)    -> "throws"
      [] f.json = "object" /\ StringEmpty(f.type)     -> "type required"
      [] OTHER ->
            CASE f.seq.kind \in {"missing", "int"} -> "ok"
              [] f.seq.kind = "uint"               -> "throws"
              [] OTHER                             -> "seq must be integer"

\* A type that is no text is written out, and none of those that are known.
TypeOf(f) == IF f.type.kind = "string" THEN f.type.text ELSE "not text"

-----------------------------------------------------------------------------
(* WsToMqDispatcher.                                                       *)

SendMembersThrow(f) ==
    \/ GetThrows(f.data)
    \/ StringThrows(f.clientMsgId) \/ Int64Throws(f.conversationId)
    \/ StringThrows(f.content) \/ StringThrows(f.sentAt)

BadSend(f) ==
    StringEmpty(f.clientMsgId) \/ AsInt64(f.conversationId) =< 0 \/ StringEmpty(f.content)

TooLong(f) == f.content.kind = "string" /\ Len(f.content.text) > MaxContent

\* A refused event takes its entry in the pending map with it.
Enqueued(f, env) ==
    IF env.publishes THEN Effect("none", FALSE, "stays", TRUE, TRUE) ELSE Reply("error", f, "stays")

\* Mutant: the time of sending is read where it is needed, after the entry.
HandleMsgSend_ReadsLate(f, env) ==
    CASE GetThrows(f.data) \/ StringThrows(f.clientMsgId) \/ Int64Throws(f.conversationId)
            \/ StringThrows(f.content)          -> Throws
      [] BadSend(f) \/ TooLong(f)               -> Reply("error", f, "stays")
      [] StringThrows(f.sentAt)                 -> Effect("none", FALSE, "throws", TRUE, FALSE)
      [] OTHER                                  -> Enqueued(f, env)

\* Every member is read before anything is done.
HandleMsgSend(f, env) ==
    IF SendMembersThrow(f) THEN Throws
    ELSE IF BadSend(f) \/ TooLong(f) THEN Reply("error", f, "stays")
    ELSE Enqueued(f, env)

HandleMsgAck(f, env) ==
    IF GetThrows(f.data) \/ Int64Throws(f.messageId) THEN Throws
    ELSE IF AsInt64(f.messageId) > 0 /\ env.publishes
      THEN Effect("none", FALSE, "stays", FALSE, TRUE)
      ELSE Reply("error", f, "stays")

\* Only logged; two numbers are read if the logger takes the line.  (messageId
\* stands for lastReadMessageId.)
HandleMsgRead(f, env) ==
    IF env.logs_info
          /\ (GetThrows(f.data) \/ Int64Throws(f.conversationId) \/ Int64Throws(f.messageId))
      THEN Throws ELSE Silent("stays")

-----------------------------------------------------------------------------
Dispatched(f, env) ==
    CASE TypeOf(f) = "ping" -> IF GetThrows(f.data) THEN Throws ELSE Reply("pong", f, "stays")
      [] TypeOf(f) = "msg.send" -> HandleMsgSend(f, env)
      [] TypeOf(f) = "msg.ack"  -> HandleMsgAck(f, env)
      [] TypeOf(f) = "msg.read" -> HandleMsgRead(f, env)
      [] TypeOf(f) = "bye"      -> Silent("ends")
      [] OTHER                       -> Reply("error", f, "stays")

\* handle: what it refuses before parsing ends the connection, what does not
\* parse is answered without a seq.
Handled(f, env) ==
    IF f.opcode # "text" \/ ~env.authorized \/ ~env.within_limit
      THEN Effect("error", FALSE, "ends", FALSE, FALSE)
      ELSE CASE Parsed(f) = "ok"     -> Dispatched(f, env)
             [] Parsed(f) = "throws" -> Throws
             [] OTHER                -> Effect("error", FALSE, "stays", FALSE, FALSE)
=============================================================================
