------------------------------- MODULE MCDownload ------------------------------
(* Servers for Download: small files under the framings, prompts and redirections
   the client distinguishes.                                                  *)
EXTENDS Download

MCCounted == Objs
File == <<"a", "b">>

\* A page, its file framed by a Content-Length.
Page(numeric, file) ==
    [numeric |-> numeric, file |-> file, prompt |-> << >>, apology |-> << >>, ranged |-> << >>,
     moved |-> FALSE, user |-> TRUE, accepts |-> {"Basic", "Digest"},
     header |-> <<Token("status", 200), Token("other", 0), Token("length", Len(file))>>, body |-> DataTokens(file)]

Chunked == [Page(TRUE, File) EXCEPT
    !.header = <<Token("status", 200), Token("chunked", 0)>>,
    !.body = <<Token("chunk", 1), Token("data", "a"), Token("blank", 0), Token("chunk", 1),
               Token("data", "b"), Token("blank", 0), Token("chunk", 0), Token("blank", 0)>>]

\* The end of the connection ends the file.
Unframed == [Page(TRUE, File) EXCEPT !.header = <<Token("status", 200)>>]

Missing == [Page(TRUE, File) EXCEPT !.header = <<Token("status", 404), Token("length", 2)>>]

\* A page behind a password; its prompt has a body of n bytes.
Auth(scheme) == Token("auth", [scheme |-> scheme, complete |-> TRUE])
Private(page, n, keepalive, schemes) == [page EXCEPT
    !.prompt = <<Token("status", 401)>> \o keepalive \o schemes \o <<Token("length", n)>>,
    !.apology = [m \in 1..n |-> Token("data", "x")]]
\* A page that refuses the password, and one whose URI holds none.
Refused == [Private(Page(TRUE, << >>), 1, << >>, <<Auth("Basic"), Auth("Digest")>>) EXCEPT
    !.accepts = {}]
Anonymous == [Private(Page(TRUE, File), 0, << >>, <<Auth("Basic")>>) EXCEPT !.user = FALSE]
\* Lines that the client cannot make sense of.
Garbled ==
    {[Page(TRUE, File) EXCEPT !.header = <<Token("junk", 0)>>],
     [Page(TRUE, File) EXCEPT !.header = <<Token("status", 200), Token("junk", 0)>>],
     [Chunked EXCEPT !.body[4] = Token("junk", 0)],
     Private(Page(TRUE, File), 0, << >>, <<Auth("none")>>),
     Private(Page(TRUE, File), 0, << >>, <<Token("auth", [scheme |-> "Digest", complete |-> FALSE])>>)}
KeepAlive == <<Token("keepalive", 0)>>

\* A redirection with a body, its Location after first.
Moved(first, uri, rest) == [Page(TRUE, << >>) EXCEPT
    !.moved = TRUE, !.header = <<Token("status", 302)>> \o first \o <<Token("location", uri)>> \o rest,
    !.body = <<Token("data", "x")>>]

Site(mode, pages, abrupt) ==
    [mode |-> mode, pages |-> pages, start |-> "u", file |-> File, abrupt |-> abrupt,
     fuel |-> -1 .. 5, lossy |-> FALSE]
One(p) == [uri \in {"u"} |-> p]

ImageSites ==
    {Site("image", One(p), TRUE) : p \in {Page(TRUE, File), Page(FALSE, File), Chunked, Missing,
        Private(Page(TRUE, File), 1, << >>, <<Auth("Basic")>>),
        Private(Chunked, 1, KeepAlive, <<Auth("other"), Auth("Digest")>>),
        Private(Page(TRUE, File), 0, KeepAlive, <<Auth("Basic")>>), Refused}}
    \cup {[Site("image", One(p), TRUE) EXCEPT !.fuel = {-1}] : p \in Garbled \cup {Anonymous}}
    \cup {Site("image", One(Unframed), FALSE)}
    \cup {Site("image", [u |-> Moved(first, "v", <<Token("length", 1)>>), v |-> Page(TRUE, File)], TRUE)
             : first \in {<< >>, <<Token("length", 1)>>}}

BlockSites ==
    {Site("block", One(p), TRUE) : p \in {[Page(TRUE, File) EXCEPT !.ranged = KeepAlive],
        Private(Page(TRUE, File), 1, KeepAlive, <<Auth("Digest")>>)}}
    \cup {Site("block", [u |-> Moved(<< >>, "v", << >>), v |-> Page(TRUE, File)], FALSE)}

MCSites == ImageSites \cup BlockSites

\* A redirection to a location that cannot be opened, and one for which memory
\* may run out.
MCDangling ==
    {Site("image", One(Moved(<< >>, "v", << >>)), TRUE),
     [Site("image", [u |-> Moved(<< >>, "v", << >>), v |-> Page(TRUE, File)], TRUE)
         EXCEPT !.lossy = TRUE]}
=============================================================================
