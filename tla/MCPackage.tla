----------------------------- MODULE MCPackage -----------------------------
\* A Linux machine that also builds for Windows.
EXTENDS Package

X64 == <<"linux", "x64">>
Win32 == <<"win32", "x64">>
Tpx == {<<>>, Win32, <<"linuxarm64">>}
Triples == {<<>>, Win32}
=============================================================================
