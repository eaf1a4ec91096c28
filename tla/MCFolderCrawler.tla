--------------------------- MODULE MCFolderCrawler ---------------------------
EXTENDS FolderCrawler

CONSTANTS out, root, sub, file, db

MCDirs == {out, root, sub}
MCContaining == [p \in {out, root, sub, file, db} |->
                    CASE p = out -> NoPath
                      [] p = root -> out
                      [] p \in {sub, db} -> root
                      [] p = file -> sub]
=============================================================================
