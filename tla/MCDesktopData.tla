--------------------------- MODULE MCDesktopData ---------------------------
(* Values for DesktopData.                                                  *)
EXTENDS DesktopData

CONSTANTS k1, w1, w2, w3, flash, pro, embedder

Entry(id, methods, window, flag, kind, chat) ==
  [id |-> id, methods |-> methods, window |-> window, thinking |-> flag, tools |-> flag,
   images |-> flag, kind |-> kind, family |-> chat, marker |-> ~chat, chat |-> chat]

Streams == {"streamGenerateContent"}

\* Both chat models, one of them with nothing published; an embedding model and
\* an entry without an id.
FullList ==
  <<Entry(embedder, {"embedContent"}, 2, FALSE, "EMBEDDING_MODEL", FALSE),
    Entry(flash, Streams, 9, TRUE, "HF_BASE_MODEL", TRUE),
    Entry(None, Streams, 2, TRUE, None, TRUE),
    Entry(pro, Streams, None, None, None, TRUE)>>

SomeResponses ==
  {[kind |-> "list", entries |-> FullList],
   [kind |-> "list", entries |-> <<FullList[1]>>],
   [kind |-> "list", entries |-> <<FullList[4], FullList[2]>>],
   [kind |-> "failed"],
   [kind |-> "not json"]}

SomeModels == {flash, pro}
=============================================================================
