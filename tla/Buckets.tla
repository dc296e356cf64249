-------------------------------- MODULE Buckets --------------------------------
(***************************************************************************)
(* Buckets, the files in them, and the signed links to the files.  A file  *)
(* belongs to a namespace of the file store: UploadFile stores under the   *)
(* slug of the bucket, an upload link under "bkt-" and the slug.  A link   *)
(* holds a token with a time of expiry, and a revoked token is remembered  *)
(* until it would have expired.  Time is in seconds.                       *)
(***************************************************************************)
EXTENDS Integers, Sequences, FiniteSets

CONSTANTS
  Slugs,                                    \* slugs of buckets
  TokenTTL, FileTTL,                        \* lifetime of a token, of a file with expires_in
  MaxFiles, MaxTokens, MaxNow, MaxOps       \* bounds: uploads, links, the clock, requests

VARIABLES
  bucket,      \* status of the row of each slug
  files,       \* rows of files: [id, space, until, to], to being history: the bucket it went to
  tokens,      \* issued tokens: [id, slug, scope, until, file], file being history
  revocations, \* file_token_revocations: [id, slug, until]
  now,
  got,         \* {} or the last answer to a download link: [token, id, file, found]
  refused,     \* history: tokens whose revocation was answered
  nfiles,      \* ids given to files
  ops

vars == <<bucket, files, tokens, revocations, now, got, refused, nfiles, ops>>

Forever == MaxNow + FileTTL + 1
LinkSpace(s) == "bkt-" \o s
Exists(s) == bucket[s] # "absent"
Op == ops < MaxOps /\ ops' = ops + 1

Init ==
  /\ bucket = [s \in Slugs |-> "absent"]
  /\ files = {} /\ tokens = {} /\ revocations = {}
  /\ now = 0 /\ got = {} /\ refused = {}
  /\ nfiles = 0 /\ ops = 0

\* AuthorizeBucket: an administrator always, the key of the bucket while it is active.
Authorized(s, who) == Exists(s) /\ (who = "admin" \/ bucket[s] = "active")
-----------------------------------------------------------------------------
\* The slug of a deleted bucket is still taken: its row stays.
InsertBucket(s) ==
  /\ ~Exists(s) /\ Op
  /\ bucket' = [bucket EXCEPT ![s] = "active"]
  /\ got' = {} /\ UNCHANGED <<files, tokens, revocations, now, refused, nfiles>>

\* The row only: key, files and links of the bucket stay.
DeleteBucket(s) ==
  /\ Exists(s) /\ Op
  /\ bucket' = [bucket EXCEPT ![s] = "deleted"]
  /\ got' = {} /\ UNCHANGED <<files, tokens, revocations, now, refused, nfiles>>

Store(space, until, to) ==
  /\ nfiles < MaxFiles /\ nfiles' = nfiles + 1
  /\ files' = files \union {[id |-> nfiles', space |-> space, until |-> until, to |-> to]}

UploadFile(s, who, until) ==
  /\ Authorized(s, who) /\ Op
  /\ Store(s, until, s)
  /\ got' = {} /\ UNCHANGED <<bucket, tokens, revocations, now, refused>>

\* DeleteByID deletes in the namespace of the slug only.
DeleteFile(s, who, f) ==
  /\ Authorized(s, who) /\ Op
  /\ f.space = s /\ files' = files \ {f}
  /\ got' = {} /\ UNCHANGED <<bucket, tokens, revocations, now, refused, nfiles>>

\* A token has an id of its own.
Issue(s, scope, file) ==
  \E id \in 1..MaxTokens :
    /\ \A t \in tokens : t.id # id
    /\ tokens' = tokens \union {[id |-> id, slug |-> s, scope |-> scope,
                                 until |-> now + TokenTTL, file |-> file]}

\* The token is for the bucket: the file is in the address only.
PresignDownload(s, who, f) ==
  /\ Authorized(s, who) /\ Op
  /\ f.space = s /\ Issue(s, "files:read", f.id)
  /\ got' = {} /\ UNCHANGED <<bucket, files, revocations, now, refused, nfiles>>

PresignUpload(s, who) ==
  /\ Authorized(s, who) /\ Op
  /\ Issue(s, "files:write", 0)
  /\ got' = {} /\ UNCHANGED <<bucket, files, revocations, now, refused, nfiles>>
-----------------------------------------------------------------------------
\* The last second of a token counts.
Verify(t) == t.until >= now

\* The token itself must verify; a token_id with its expires_at need not.
RevokeFileToken(s, who, t, byToken) ==
  /\ Authorized(s, who) /\ Op
  /\ t.slug = s /\ (byToken => Verify(t))
  /\ revocations' = {r \in revocations : r.id # t.id} \union
                    {[id |-> t.id, slug |-> s, until |-> t.until]}
  /\ refused' = refused \union {t.id}
  /\ got' = {} /\ UNCHANGED <<bucket, files, tokens, now, nfiles>>

\* Fault: asked under the namespace of the links.
IsRevokedInSpace(id, s) ==
  \E r \in revocations : r.id = id /\ r.slug = LinkSpace(s) /\ r.until > now

\* The last second of a revocation does not count.
IsFileTokenRevoked(id, s) == \E r \in revocations : r.id = id /\ r.slug = s /\ r.until > now

\* A link for some file of the bucket. Neither the status of the bucket nor, as it is stored in
\* another layout than the one it is parsed with, the expiry of the file is asked.
FileShortlink(s, t, id) ==
  /\ Op
  /\ Verify(t) /\ t.scope = "files:read" /\ t.slug = s /\ ~IsFileTokenRevoked(t.id, s)
  /\ LET found == {f \in files : f.id = id /\ f.space = LinkSpace(s)}
     IN got' = {[token |-> t, id |-> id, found |-> found, stored |-> {f \in files : f.id = id}]}
  /\ UNCHANGED <<bucket, files, tokens, revocations, now, refused, nfiles>>

\* The row of the bucket must be there, whatever its status, and revocations are not asked.
UploadShortlink(s, t) ==
  /\ Op
  /\ Verify(t) /\ t.scope = "files:write" /\ t.slug = s /\ Exists(s)
  /\ Store(LinkSpace(s), Forever, s)
  /\ got' = {} /\ UNCHANGED <<bucket, tokens, revocations, now, refused>>
-----------------------------------------------------------------------------
\* CleanupExpired and CleanupExpiredTokenRevocations.
Cleanup ==
  /\ Op
  /\ files' = {f \in files : f.until > now}
  /\ revocations' = {r \in revocations : r.until > now}
  /\ got' = {} /\ UNCHANGED <<bucket, tokens, now, refused, nfiles>>

Tick ==
  /\ now < MaxNow /\ now' = now + 1
  /\ got' = {} /\ UNCHANGED <<bucket, files, tokens, revocations, refused, nfiles, ops>>

Next ==
  \/ \E s \in Slugs : InsertBucket(s) \/ DeleteBucket(s)
  \/ \E s \in Slugs, who \in {"admin", "key"} :
       \/ \E until \in {now + FileTTL, Forever} : UploadFile(s, who, until)
       \/ \E f \in files : DeleteFile(s, who, f) \/ PresignDownload(s, who, f)
       \/ PresignUpload(s, who)
       \/ \E t \in tokens, byToken \in BOOLEAN : RevokeFileToken(s, who, t, byToken)
  \/ \E s \in Slugs, t \in tokens :
       UploadShortlink(s, t) \/ \E id \in 1..nfiles : FileShortlink(s, t, id)
  \/ Cleanup \/ Tick

Spec == Init /\ [][Next]_vars
-----------------------------------------------------------------------------
Apart(s) == \A t \in Slugs : Exists(t) => LinkSpace(s) # t

\* A link whose revocation was answered opens no file any more, however often the clean-up ran,
\* but in the last second of its token.
RevokedIsRefused ==
  \A g \in got : g.token.id \in refused /\ g.found # {} => now = g.token.until

\* A link opens files that were given to its own bucket, unless the slug of another bucket is
\* the namespace of the links of this one.
LinkOpensItsBucket ==
  \A g \in got : Apart(g.token.slug) => \A f \in g.found : f.to = g.token.slug

\* "Returns a time-limited shortlink URL for the given file": a link that is valid opens the
\* file it was made for, as long as the file is there.
LinkOpensItsFile ==
  \A g \in got : g.token.file = g.id /\ g.stored # {} => g.found # {}
=============================================================================
