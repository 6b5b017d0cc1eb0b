----------------------------- MODULE MCExample -----------------------------
(* An instance of Example for TLC: systems of each kind errno.h knows. *)
EXTENDS Example

\* Numbers of <errno.h>, as far as the check uses them.
Linux ==
  [windows |-> FALSE, bsd |-> FALSE, edom |-> 33,
   errno |-> [EPERM |-> 1, ENOENT |-> 2, ESRCH |-> 3, EIO |-> 5, E2BIG |-> 7, EAGAIN |-> 11,
              ENOMEM |-> 12, EACCES |-> 13, EINVAL |-> 22, EMFILE |-> 24, EPROTO |-> 71,
              ENOTSUP |-> 95, EHOSTDOWN |-> 112, EREMOTEIO |-> 121]]
\* A BSD that hides EHOSTDOWN, whose number there is 64.
Bsd ==
  [windows |-> FALSE, bsd |-> TRUE, edom |-> 33,
   errno |-> [ENOENT |-> 2, ENOMEM |-> 12, EAGAIN |-> 35, ENOTSUP |-> 45, ENAMETOOLONG |-> 63,
              EHOSTUNREACH |-> 65, ENOTEMPTY |-> 66, EFTYPE |-> 79]]
Windows ==
  [windows |-> TRUE, bsd |-> FALSE, edom |-> 33,
   errno |-> [ENOENT |-> 2, EAGAIN |-> 11, ENOMEM |-> 12]]
\* A system whose numbers are negative.
Haiku ==
  [windows |-> FALSE, bsd |-> FALSE, edom |-> -2147454960,
   errno |-> [ENOMEM |-> -2147483647 - 1, EAGAIN |-> -2147483637, ENOENT |-> -2147459069]]

MCSystems == {Linux, Bsd, Windows, Haiku}
=============================================================================
